---------------------------- MODULE Spec2Model ----------------------------
(***************************************************************************)
(* Model of the pairing and validation engine of excel-file-checker        *)
(* (src/src/review_validator.py): ReviewPair, ReviewValidator; of the      *)
(* report pipeline that drives it (src/src/main.py, config_loader.py); and *)
(* of the extraction of cell values (src/src/cell_extractor.py).           *)
(*                                                                         *)
(* Python values are represented as follows.                               *)
(*   str        a sequence of code points, e.g. "P1" is <<80, 49>>         *)
(*   cell value a record [kind, s, n]: kind "str" carries s, kind "int"    *)
(*              carries n; or None                                         *)
(*   dict       a function whose DOMAIN is the set of keys present         *)
(*   list       a sequence (index 1 is Python's index 0)                   *)
(*   None       the value None below                                       *)
(*   truthiness None and the empty dict are false, other dicts are true    *)
(*   bool|None  in a verdict: "True", "False" or "None"                    *)
(* The source's Japanese literals cannot be written in a TLA+ string; each *)
(* is given an ASCII stand-in, named next to the literal it stands for.    *)
(***************************************************************************)
EXTENDS Integers, Sequences, FiniteSets, TLC

VARIABLES
    pairs,        \* ReviewValidator.pairs: the dict, as its entries in insertion order
    calls,        \* history: the add_file calls made so far, in order
    ret,          \* the value returned by the most recent call
    validations,  \* history: validate_all calls made since the last add_file
    summary,      \* the summary lines generated from the list last returned, or None
    checker,      \* ExcelFileChecker.run: its locals and its position, None outside a run
    extractor     \* CellExtractor: the file, the request and what extract_cells gave

vars == <<pairs, calls, ret, validations, summary, checker, extractor>>

(***************************************************************************)
(* Bounds of the model.                                                    *)
(***************************************************************************)
MaxCalls == 2
MaxValidate == 2

(***************************************************************************)
(* Python's None, and the three-valued fields of a verdict.                *)
(***************************************************************************)
None == [None |-> TRUE]
PyBool(b) == IF b THEN "True" ELSE "False"

(***************************************************************************)
(* Literals of the source.                                                 *)
(***************************************************************************)
LABEL_PROJECT_NAME == "project name"      \* "プロジェクト名"
LABEL_DATE == "date"                      \* "日付"
LABEL_APPROVAL_DATE == "approval date"    \* "承認日"
LABEL_ASSIGNEE == "reviewer/assignee"     \* "担当者"
LABEL_REVIEWER == "reviewer"              \* "レビュアー"
LABEL_APPROVER == "approver"              \* "承認者" (a checklist label of the sample config)

IMAGE_PRESENT == "present"                \* "○"
IMAGE_ABSENT == "absent"                  \* "×"
IMAGE_UNSUPPORTED == "unsupported"        \* "-"

STATUS_OK == "OK"                                              \* "✓ OK"
STATUS_INCONSISTENT == "inconsistency found"                   \* "⚠️ 不一致あり"
STATUS_NO_RECORD == "missing record"                           \* "⚠️ 記録表なし"
STATUS_NO_CHECKLIST == "missing checklist"                     \* "⚠️ チェックリストなし"
STATUS_NO_CHECKLIST_NO_STAMP == "missing checklist, missing stamp" \* "⚠️ チェックリストなし・捺印なし"

WARN_NO_RECORD == "record document not found"        \* "レビュー記録表が見つかりません"
WARN_NO_CHECKLIST == "checklist document not found"  \* "レビューチェックリストが見つかりません"
WARN_DATE == "date mismatch"                         \* "日付が一致しません"
WARN_REVIEWER == "reviewer mismatch"                 \* "担当者/レビュアーが一致しません"
WARN_STAMP == "stamp missing"                        \* "捺印がありません"

COLON == <<58>>                                            \* ":"
UNKNOWN_PREFIX == <<85, 110, 107, 110, 111, 119, 110, 95>> \* "Unknown_"
UNKNOWN_FILENAME == <<85, 110, 107, 110, 111, 119, 110>>   \* "Unknown"
NONE_STR == <<78, 111, 110, 101>>                          \* str(None)

(***************************************************************************)
(* Python string and value primitives.                                     *)
(***************************************************************************)
\* the code points str.strip() removes
WHITESPACE ==
    {9, 10, 11, 12, 13, 28, 29, 30, 31, 32, 133, 160, 5760, 8232, 8233,
     8239, 8287, 12288} \cup (8192..8202)

RECURSIVE Digits(_)
Digits(n) == IF n < 10 THEN <<48 + n>> ELSE Digits(n \div 10) \o <<48 + (n % 10)>>

\* str(v) of a cell value
Str(v) ==
    IF v = None THEN NONE_STR
    ELSE IF v.kind = "str" THEN v.s
    ELSE IF v.n < 0 THEN <<45>> \o Digits(0 - v.n) ELSE Digits(v.n)

\* ":" in s
HasColon(s) == \E i \in 1..Len(s) : s[i] = COLON[1]

\* s.split(":", 1)[1], for s that holds a colon
AfterFirstColon(s) ==
    LET i == CHOOSE j \in 1..Len(s) :
                 s[j] = COLON[1] /\ \A k \in 1..(j - 1) : s[k] # COLON[1]
    IN SubSeq(s, i + 1, Len(s))

\* s.strip()
Strip(s) ==
    LET keep == {i \in 1..Len(s) : s[i] \notin WHITESPACE}
    IN IF keep = {} THEN <<>>
       ELSE LET lo == CHOOSE i \in keep : \A j \in keep : i <= j
                hi == CHOOSE i \in keep : \A j \in keep : j <= i
            IN SubSeq(s, lo, hi)

\* a < b on str: lexicographic by code point, a proper prefix is smaller
RECURSIVE StrLess(_, _)
StrLess(a, b) ==
    IF b = <<>> THEN FALSE
    ELSE IF a = <<>> THEN TRUE
    ELSE IF a[1] # b[1] THEN a[1] < b[1]
    ELSE StrLess(Tail(a), Tail(b))

\* d.get(k, default)
Get(d, k, default) == IF k \in DOMAIN d THEN d[k] ELSE default

\* x in xs, for a list
InList(x, xs) == \E i \in 1..Len(xs) : xs[i] = x

\* xs.index(x) + 1, for x in xs
IndexOf(x, xs) == CHOOSE i \in 1..Len(xs) : xs[i] = x /\ \A j \in 1..(i - 1) : xs[j] # x

(***************************************************************************)
(* class ReviewPair                                                        *)
(***************************************************************************)
\* ReviewPair.__init__
ReviewPair(project_name) ==
    [project_name |-> project_name, checklist |-> None, record |-> None]

\* set_checklist that keeps a checklist already set
set_checklist_KeepsFirst(pair, data) ==
    IF pair.checklist = None THEN [pair EXCEPT !.checklist = data] ELSE pair

set_checklist(pair, data) == [pair EXCEPT !.checklist = data]

set_record(pair, data) == [pair EXCEPT !.record = data]

has_both(pair) == pair.checklist # None /\ pair.record # None

has_checklist_only(pair) == pair.checklist # None /\ pair.record = None

has_record_only(pair) == pair.checklist = None /\ pair.record # None

\* _get_value_by_label that takes the last position of the label
_get_value_by_label_LastMatch(data, label) ==
    LET cell_labels == Get(data, "cell_labels", <<>>)
        cell_values == Get(data, "cell_values", <<>>)
    IN IF ~InList(label, cell_labels) THEN None
       ELSE LET index == CHOOSE i \in 1..Len(cell_labels) :
                             /\ cell_labels[i] = label
                             /\ \A j \in (i + 1)..Len(cell_labels) : cell_labels[j] # label
            IN IF index > Len(cell_values) THEN None
               ELSE cell_values[index]

\* the value under a label, or None
_get_value_by_label(data, label) ==
    LET cell_labels == Get(data, "cell_labels", <<>>)
        cell_values == Get(data, "cell_values", <<>>)
    IN IF ~InList(label, cell_labels) THEN None
       ELSE LET index == IndexOf(label, cell_labels)
            IN IF index > Len(cell_values) THEN None
               ELSE cell_values[index]

\* the record-side normalisation: the text after the first colon, stripped
StripLabelPrefix(record_str) ==
    IF HasColon(record_str) THEN Strip(AfterFirstColon(record_str)) ELSE record_str

\* _validate_date that keeps the blanks around the text after the colon
_validate_date_NoStrip(pair) ==
    IF ~has_both(pair) THEN FALSE
    ELSE LET checklist_date == _get_value_by_label(pair.checklist, LABEL_DATE)
             record_date == _get_value_by_label(pair.record, LABEL_APPROVAL_DATE)
         IN IF checklist_date = None \/ record_date = None THEN FALSE
            ELSE Str(checklist_date) =
                     (IF HasColon(Str(record_date))
                      THEN AfterFirstColon(Str(record_date))
                      ELSE Str(record_date))

_validate_date(pair) ==
    IF ~has_both(pair) THEN FALSE
    ELSE LET checklist_date == _get_value_by_label(pair.checklist, LABEL_DATE)
             record_date == _get_value_by_label(pair.record, LABEL_APPROVAL_DATE)
         IN IF checklist_date = None \/ record_date = None THEN FALSE
            ELSE Str(checklist_date) = StripLabelPrefix(Str(record_date))

\* _validate_reviewer without the test for a missing value
_validate_reviewer_NoneMatches(pair) ==
    IF ~has_both(pair) THEN FALSE
    ELSE LET checklist_reviewer == _get_value_by_label(pair.checklist, LABEL_ASSIGNEE)
             record_reviewer == _get_value_by_label(pair.record, LABEL_REVIEWER)
         IN Str(checklist_reviewer) = StripLabelPrefix(Str(record_reviewer))

\* _validate_reviewer that takes the text after the colon on both sides
_validate_reviewer_StripsBoth(pair) ==
    IF ~has_both(pair) THEN FALSE
    ELSE LET checklist_reviewer == _get_value_by_label(pair.checklist, LABEL_ASSIGNEE)
             record_reviewer == _get_value_by_label(pair.record, LABEL_REVIEWER)
         IN IF checklist_reviewer = None \/ record_reviewer = None THEN FALSE
            ELSE StripLabelPrefix(Str(checklist_reviewer))
                     = StripLabelPrefix(Str(record_reviewer))

_validate_reviewer(pair) ==
    IF ~has_both(pair) THEN FALSE
    ELSE LET checklist_reviewer == _get_value_by_label(pair.checklist, LABEL_ASSIGNEE)
             record_reviewer == _get_value_by_label(pair.record, LABEL_REVIEWER)
         IN IF checklist_reviewer = None \/ record_reviewer = None THEN FALSE
            ELSE Str(checklist_reviewer) = StripLabelPrefix(Str(record_reviewer))

\* _check_stamp that asks every image to be a stamp
_check_stamp_AllPresent(record) ==
    IF record = None THEN FALSE
    ELSE LET image_results == Get(record, "image_results", <<>>)
         IN IF image_results = <<>> THEN FALSE
            ELSE \A i \in 1..Len(image_results) : image_results[i] = IMAGE_PRESENT

_check_stamp(record) ==
    IF record = None THEN FALSE
    ELSE LET image_results == Get(record, "image_results", <<>>)
         IN IF image_results = <<>> THEN FALSE
            ELSE InList(IMAGE_PRESENT, image_results)

\* the both-present verdict with the stamp left out of the status decision
ValidateBoth_StatusIgnoresStamp(pair) ==
    LET date_match == _validate_date(pair)
        reviewer_match == _validate_reviewer(pair)
        has_stamp == _check_stamp(pair.record)
    IN [has_pair |-> TRUE,
        date_match |-> PyBool(date_match),
        reviewer_match |-> PyBool(reviewer_match),
        has_stamp |-> PyBool(has_stamp),
        status |-> IF date_match /\ reviewer_match
                   THEN STATUS_OK ELSE STATUS_INCONSISTENT,
        warnings |-> IF date_match /\ reviewer_match THEN <<>>
                     ELSE (IF ~date_match THEN <<WARN_DATE>> ELSE <<>>)
                          \o (IF ~reviewer_match THEN <<WARN_REVIEWER>> ELSE <<>>)
                          \o (IF ~has_stamp THEN <<WARN_STAMP>> ELSE <<>>)]

\* the both-present verdict with the reviewer warning appended before the date warning
ValidateBoth_ReviewerFirst(pair) ==
    LET date_match == _validate_date(pair)
        reviewer_match == _validate_reviewer(pair)
        has_stamp == _check_stamp(pair.record)
    IN [has_pair |-> TRUE,
        date_match |-> PyBool(date_match),
        reviewer_match |-> PyBool(reviewer_match),
        has_stamp |-> PyBool(has_stamp),
        status |-> IF date_match /\ reviewer_match /\ has_stamp
                   THEN STATUS_OK ELSE STATUS_INCONSISTENT,
        warnings |-> IF date_match /\ reviewer_match /\ has_stamp THEN <<>>
                     ELSE (IF ~reviewer_match THEN <<WARN_REVIEWER>> ELSE <<>>)
                          \o (IF ~date_match THEN <<WARN_DATE>> ELSE <<>>)
                          \o (IF ~has_stamp THEN <<WARN_STAMP>> ELSE <<>>)]

\* the verdict of a pair that is not checklist-only and not record-only
\* the verdict of a complete pair without the warning for a missing stamp
ValidateBoth_NoStampWarning(pair) ==
    LET date_match == _validate_date(pair)
        reviewer_match == _validate_reviewer(pair)
        has_stamp == _check_stamp(pair.record)
    IN [has_pair |-> TRUE,
        date_match |-> PyBool(date_match),
        reviewer_match |-> PyBool(reviewer_match),
        has_stamp |-> PyBool(has_stamp),
        status |-> IF date_match /\ reviewer_match /\ has_stamp
                   THEN STATUS_OK ELSE STATUS_INCONSISTENT,
        warnings |-> IF date_match /\ reviewer_match /\ has_stamp THEN <<>>
                     ELSE (IF ~date_match THEN <<WARN_DATE>> ELSE <<>>)
                          \o (IF ~reviewer_match THEN <<WARN_REVIEWER>> ELSE <<>>)]

ValidateBoth(pair) ==
    LET date_match == _validate_date(pair)
        reviewer_match == _validate_reviewer(pair)
        has_stamp == _check_stamp(pair.record)
    IN [has_pair |-> TRUE,
        date_match |-> PyBool(date_match),
        reviewer_match |-> PyBool(reviewer_match),
        has_stamp |-> PyBool(has_stamp),
        status |-> IF date_match /\ reviewer_match /\ has_stamp
                   THEN STATUS_OK ELSE STATUS_INCONSISTENT,
        warnings |-> IF date_match /\ reviewer_match /\ has_stamp THEN <<>>
                     ELSE (IF ~date_match THEN <<WARN_DATE>> ELSE <<>>)
                          \o (IF ~reviewer_match THEN <<WARN_REVIEWER>> ELSE <<>>)
                          \o (IF ~has_stamp THEN <<WARN_STAMP>> ELSE <<>>)]

\* validate that reads a stamp off the checklist of a checklist-only pair
validate_ChecklistStamp(pair) ==
    IF ~has_both(pair) /\ has_checklist_only(pair)
    THEN [has_pair |-> FALSE,
          date_match |-> "None",
          reviewer_match |-> "None",
          has_stamp |-> PyBool(_check_stamp(pair.checklist)),
          status |-> STATUS_NO_RECORD,
          warnings |-> <<WARN_NO_RECORD>>]
    ELSE IF ~has_both(pair) /\ has_record_only(pair)
    THEN LET has_stamp == _check_stamp(pair.record)
         IN [has_pair |-> FALSE,
             date_match |-> "None",
             reviewer_match |-> "None",
             has_stamp |-> PyBool(has_stamp),
             status |-> IF has_stamp THEN STATUS_NO_CHECKLIST
                        ELSE STATUS_NO_CHECKLIST_NO_STAMP,
             warnings |-> <<WARN_NO_CHECKLIST>>
                          \o (IF has_stamp THEN <<>> ELSE <<WARN_STAMP>>)]
    ELSE ValidateBoth(pair)

\* validate that puts the stamp warning of a record-only pair first
validate_StampWarningFirst(pair) ==
    IF ~has_both(pair) /\ has_checklist_only(pair)
    THEN [has_pair |-> FALSE,
          date_match |-> "None",
          reviewer_match |-> "None",
          has_stamp |-> "None",
          status |-> STATUS_NO_RECORD,
          warnings |-> <<WARN_NO_RECORD>>]
    ELSE IF ~has_both(pair) /\ has_record_only(pair)
    THEN LET has_stamp == _check_stamp(pair.record)
         IN [has_pair |-> FALSE,
             date_match |-> "None",
             reviewer_match |-> "None",
             has_stamp |-> PyBool(has_stamp),
             status |-> IF has_stamp THEN STATUS_NO_CHECKLIST
                        ELSE STATUS_NO_CHECKLIST_NO_STAMP,
             warnings |-> (IF has_stamp THEN <<>> ELSE <<WARN_STAMP>>)
                          \o <<WARN_NO_CHECKLIST>>]
    ELSE ValidateBoth(pair)

validate(pair) ==
    IF ~has_both(pair) /\ has_checklist_only(pair)
    THEN [has_pair |-> FALSE,
          date_match |-> "None",
          reviewer_match |-> "None",
          has_stamp |-> "None",
          status |-> STATUS_NO_RECORD,
          warnings |-> <<WARN_NO_RECORD>>]
    ELSE IF ~has_both(pair) /\ has_record_only(pair)
    THEN LET has_stamp == _check_stamp(pair.record)
         IN [has_pair |-> FALSE,
             date_match |-> "None",
             reviewer_match |-> "None",
             has_stamp |-> PyBool(has_stamp),
             status |-> IF has_stamp THEN STATUS_NO_CHECKLIST
                        ELSE STATUS_NO_CHECKLIST_NO_STAMP,
             warnings |-> <<WARN_NO_CHECKLIST>>
                          \o (IF has_stamp THEN <<>> ELSE <<WARN_STAMP>>)]
    ELSE ValidateBoth(pair)

(***************************************************************************)
(* class ReviewValidator                                                   *)
(***************************************************************************)
\* _extract_project_name whose fallback is the bare file name
_extract_project_name_NoPrefix(file_data) ==
    LET cell_labels == Get(file_data, "cell_labels", <<>>)
        cell_values == Get(file_data, "cell_values", <<>>)
        found == /\ InList(LABEL_PROJECT_NAME, cell_labels)
                 /\ IndexOf(LABEL_PROJECT_NAME, cell_labels) <= Len(cell_values)
    IN IF found THEN Str(cell_values[IndexOf(LABEL_PROJECT_NAME, cell_labels)])
       ELSE Get(file_data, "filename", UNKNOWN_FILENAME)

_extract_project_name(file_data) ==
    LET cell_labels == Get(file_data, "cell_labels", <<>>)
        cell_values == Get(file_data, "cell_values", <<>>)
        found == /\ InList(LABEL_PROJECT_NAME, cell_labels)
                 /\ IndexOf(LABEL_PROJECT_NAME, cell_labels) <= Len(cell_values)
    IN IF found THEN Str(cell_values[IndexOf(LABEL_PROJECT_NAME, cell_labels)])
       ELSE UNKNOWN_PREFIX \o Get(file_data, "filename", UNKNOWN_FILENAME)

\* the dict self.pairs: list(ps.keys()), k in ps, ps[k]
Keys(ps) == [i \in 1..Len(ps) |-> ps[i].project_name]
HasKey(ps, k) == \E i \in 1..Len(ps) : ps[i].project_name = k
Slot(ps, k) == CHOOSE i \in 1..Len(ps) : ps[i].project_name = k

\* add_file that skips a file without a project name label
AddFile_SkipsUnlabelled(ps, file_data, file_type) ==
    IF ~InList(LABEL_PROJECT_NAME, Get(file_data, "cell_labels", <<>>)) THEN ps
    ELSE LET project_name == _extract_project_name(file_data)
             ps1 == IF ~HasKey(ps, project_name)
                    THEN Append(ps, ReviewPair(project_name)) ELSE ps
             i == Slot(ps1, project_name)
         IN IF file_type = "checklist" THEN [ps1 EXCEPT ![i] = set_checklist(@, file_data)]
            ELSE IF file_type = "record" THEN [ps1 EXCEPT ![i] = set_record(@, file_data)]
            ELSE ps1

\* add_file that starts a new mapping when the key is new
AddFile_FreshMapping(ps, file_data, file_type) ==
    LET project_name == _extract_project_name(file_data)
        ps1 == IF ~HasKey(ps, project_name)
               THEN <<ReviewPair(project_name)>> ELSE ps
        i == Slot(ps1, project_name)
    IN IF file_type = "checklist" THEN [ps1 EXCEPT ![i] = set_checklist(@, file_data)]
       ELSE IF file_type = "record" THEN [ps1 EXCEPT ![i] = set_record(@, file_data)]
       ELSE ps1

\* add_file that makes a new pair for the key on every call
AddFile_AlwaysNewPair(ps, file_data, file_type) ==
    LET project_name == _extract_project_name(file_data)
        ps1 == IF ~HasKey(ps, project_name)
               THEN Append(ps, ReviewPair(project_name))
               ELSE [ps EXCEPT ![Slot(ps, project_name)] = ReviewPair(project_name)]
        i == Slot(ps1, project_name)
    IN IF file_type = "checklist" THEN [ps1 EXCEPT ![i] = set_checklist(@, file_data)]
       ELSE IF file_type = "record" THEN [ps1 EXCEPT ![i] = set_record(@, file_data)]
       ELSE ps1

\* add_file that files the record under its file name
AddFile_KeyByFilename(ps, file_data, file_type) ==
    LET project_name == Get(file_data, "filename", UNKNOWN_FILENAME)
        ps1 == IF ~HasKey(ps, project_name)
               THEN Append(ps, ReviewPair(project_name)) ELSE ps
        i == Slot(ps1, project_name)
    IN IF file_type = "checklist" THEN [ps1 EXCEPT ![i] = set_checklist(@, file_data)]
       ELSE IF file_type = "record" THEN [ps1 EXCEPT ![i] = set_record(@, file_data)]
       ELSE ps1

\* self.pairs after add_file(file_data, file_type)
AddFile(ps, file_data, file_type) ==
    LET project_name == _extract_project_name(file_data)
        ps1 == IF ~HasKey(ps, project_name)
               THEN Append(ps, ReviewPair(project_name)) ELSE ps
        i == Slot(ps1, project_name)
    IN IF file_type = "checklist" THEN [ps1 EXCEPT ![i] = set_checklist(@, file_data)]
       ELSE IF file_type = "record" THEN [ps1 EXCEPT ![i] = set_record(@, file_data)]
       ELSE ps1

\* insertion with the comparison reversed
RECURSIVE Insert_Reversed(_, _)
Insert_Reversed(k, ks) ==
    IF ks = <<>> THEN <<k>>
    ELSE IF StrLess(ks[1], k) THEN <<k>> \o ks
    ELSE <<ks[1]>> \o Insert_Reversed(k, Tail(ks))

\* sorted(keys): insertion of each key before the first greater one
RECURSIVE Insert(_, _)
Insert(k, ks) ==
    IF ks = <<>> THEN <<k>>
    ELSE IF StrLess(k, ks[1]) THEN <<k>> \o ks
    ELSE <<ks[1]>> \o Insert(k, Tail(ks))

\* sorted that leaves the keys in the dict's insertion order
sorted_InsertionOrder(ks) == ks

RECURSIVE sorted(_)
sorted(ks) == IF ks = <<>> THEN <<>> ELSE Insert(ks[Len(ks)], sorted(SubSeq(ks, 1, Len(ks) - 1)))

\* the list validate_all() returns
\* validate_all that returns a verdict for the complete pairs only
ValidateAll_CompleteOnly(ps) ==
    LET ks == sorted(Keys(ps))
        all == [n \in 1..Len(ks) |->
                  LET pair == ps[Slot(ps, ks[n])]
                  IN [project_name |-> ks[n],
                      checklist |-> pair.checklist,
                      record |-> pair.record,
                      validation |-> validate(pair)]]
        Both(result) == result.checklist # None /\ result.record # None
    IN SelectSeq(all, Both)

ValidateAll(ps) ==
    LET ks == sorted(Keys(ps))
    IN [n \in 1..Len(ks) |->
          LET pair == ps[Slot(ps, ks[n])]
          IN [project_name |-> ks[n],
              checklist |-> pair.checklist,
              record |-> pair.record,
              validation |-> validate(pair)]]

(***************************************************************************)
(* The inputs: extracted files as _process_file_with_config builds them    *)
(* (filename, cell_values, image_results, cell_labels), and the file types *)
(* add_file can be called with.                                            *)
(***************************************************************************)
StrVal(s) == [kind |-> "str", s |-> s, n |-> 0]
IntVal(n) == [kind |-> "int", s |-> <<>>, n |-> n]

S_P1 == <<80, 49>>                          \* "P1"
S_7 == <<55>>                               \* "7"
S_JAN == <<49, 47, 49, 53>>                 \* "1/15"
S_AD_JAN == <<97, 100, 58, 32, 49, 47, 49, 53>>   \* "ad: 1/15"
S_AD_FEB == <<97, 100, 58, 32, 50, 47, 49, 53>>   \* "ad: 2/15"
S_YA == <<89, 97>>                          \* "Ya"
S_SU == <<83, 117>>                         \* "Su"
S_RV_YA == <<114, 118, 58, 12288, 89, 97>>  \* "rv:" + U+3000 + "Ya"
S_SA == <<83, 97>>                          \* "Sa"

CHECKLIST_LABELS == <<LABEL_PROJECT_NAME, LABEL_DATE, LABEL_ASSIGNEE, LABEL_APPROVER>>
RECORD_LABELS == <<LABEL_PROJECT_NAME, LABEL_APPROVAL_DATE, LABEL_REVIEWER>>

\* checklist of project "P1"
FD_CL_P1 ==
    [filename |-> <<99, 49>>,
     cell_values |-> <<StrVal(S_P1), StrVal(S_JAN), StrVal(S_YA), StrVal(S_SA)>>,
     cell_labels |-> CHECKLIST_LABELS,
     image_results |-> <<>>]

\* record of project "P1" that agrees with FD_CL_P1, stamped
FD_REC_P1_OK ==
    [filename |-> <<114, 49>>,
     cell_values |-> <<StrVal(S_P1), StrVal(S_AD_JAN), StrVal(S_RV_YA)>>,
     cell_labels |-> RECORD_LABELS,
     image_results |-> <<IMAGE_PRESENT>>]

\* record of project "P1" with another approval date, stamped
FD_REC_P1_DATE ==
    [filename |-> <<114, 50>>,
     cell_values |-> <<StrVal(S_P1), StrVal(S_AD_FEB), StrVal(S_RV_YA)>>,
     cell_labels |-> RECORD_LABELS,
     image_results |-> <<IMAGE_UNSUPPORTED, IMAGE_PRESENT>>]

\* record of project "P1" that agrees with FD_CL_P1, not stamped
FD_REC_P1_NOSTAMP ==
    [filename |-> <<114, 51>>,
     cell_values |-> <<StrVal(S_P1), StrVal(S_JAN), StrVal(S_YA)>>,
     cell_labels |-> RECORD_LABELS,
     image_results |-> <<IMAGE_ABSENT>>]

\* checklist whose project name cell holds the number 7
FD_CL_7 ==
    [filename |-> <<99, 55>>,
     cell_values |-> <<IntVal(7), StrVal(S_JAN), StrVal(S_YA), StrVal(S_SA)>>,
     cell_labels |-> CHECKLIST_LABELS,
     image_results |-> <<>>]

\* record of project "7" with another reviewer, stamped
FD_REC_7_REVIEWER ==
    [filename |-> <<114, 55>>,
     cell_values |-> <<StrVal(S_7), StrVal(S_AD_JAN), StrVal(S_SU)>>,
     cell_labels |-> RECORD_LABELS,
     image_results |-> <<IMAGE_PRESENT>>]

\* record of project 7 (a number) with another approval date, image cell unsupported
FD_REC_7_DATE ==
    [filename |-> <<114, 56>>,
     cell_values |-> <<IntVal(7), StrVal(S_AD_FEB), StrVal(S_YA)>>,
     cell_labels |-> RECORD_LABELS,
     image_results |-> <<IMAGE_UNSUPPORTED>>]

\* record with no project name label and no image check cells
FD_REC_NOLABEL ==
    [filename |-> <<114, 57>>,
     cell_values |-> <<StrVal(S_AD_JAN), StrVal(S_YA)>>,
     cell_labels |-> <<LABEL_APPROVAL_DATE, LABEL_REVIEWER>>,
     image_results |-> <<>>]

FILE_DATA ==
    {FD_CL_P1, FD_REC_P1_OK, FD_REC_P1_DATE, FD_REC_P1_NOSTAMP,
     FD_CL_7, FD_REC_7_REVIEWER, FD_REC_7_DATE, FD_REC_NOLABEL}

FILE_TYPES == {"checklist", "record", "unknown"}

(***************************************************************************)
(* The state machine: one ReviewValidator and the calls made on it.        *)
(***************************************************************************)
\* ReviewValidator.__init__
Init ==
    /\ pairs = <<>>
    /\ calls = <<>>
    /\ ret = None
    /\ validations = 0
    /\ summary = None
    /\ checker = None
    /\ extractor = None

\* validator.add_file(file_data, file_type)
add_file ==
    \E file_data \in FILE_DATA, file_type \in FILE_TYPES :
        /\ Len(calls) < MaxCalls
        /\ pairs' = AddFile(pairs, file_data, file_type)
        /\ calls' = Append(calls, [file_data |-> file_data, file_type |-> file_type])
        /\ ret' = None
        /\ validations' = 0
        /\ summary' = None
        /\ UNCHANGED <<checker, extractor>>

\* validate_all that empties the mapping once it has validated it
validate_all_Consuming ==
    /\ validations < MaxValidate
    /\ ret' = ValidateAll(pairs)
    /\ validations' = validations + 1
    /\ pairs' = <<>>
    /\ UNCHANGED <<calls, summary, checker, extractor>>

\* validator.validate_all()
validate_all ==
    /\ validations < MaxValidate
    /\ ret' = ValidateAll(pairs)
    /\ validations' = validations + 1
    /\ UNCHANGED <<pairs, calls, summary, checker, extractor>>

Next == add_file \/ validate_all

Spec == Init /\ [][Next]_vars

(***************************************************************************)
(* ExcelFileChecker._generate_summary (src/src/main.py): the summary lines *)
(* of a list that validate_all returned.                                   *)
(***************************************************************************)
SUMMARY_TOTAL ==           \* "- プロジェクト総数: "
    <<45, 32, 12503, 12525, 12472, 12455, 12463, 12488, 32207, 25968, 58, 32>>
SUMMARY_COMPLETE ==        \* "- 完全なペア: "
    <<45, 32, 23436, 20840, 12394, 12506, 12450, 58, 32>>
SUMMARY_CHECKLIST_ONLY ==  \* "- チェックリストのみ: "
    <<45, 32, 12481, 12455, 12483, 12463, 12522, 12473, 12488, 12398, 12415, 58, 32>>
SUMMARY_RECORD_ONLY ==     \* "- 記録表のみ: "
    <<45, 32, 35352, 37682, 34920, 12398, 12415, 58, 32>>
SUMMARY_NO_STAMP ==        \* "- 捺印なし: "
    <<45, 32, 25466, 21360, 12394, 12375, 58, 32>>
SUMMARY_UNIT == <<20214>>  \* "件"

\* bool(x) of a dict or None
Truthy(x) == x # None /\ DOMAIN x # {}

\* the counters with every has_stamp that is not True counted as missing
RECURSIVE SummaryCounts_NotStamped(_)
SummaryCounts_NotStamped(validation_results) ==
    IF validation_results = <<>>
    THEN [complete_pairs |-> 0, checklist_only |-> 0, record_only |-> 0, no_stamp |-> 0]
    ELSE LET n == Len(validation_results)
             c == SummaryCounts_NotStamped(SubSeq(validation_results, 1, n - 1))
             result == validation_results[n]
             validation == result.validation
             checklist == result.checklist
             record == result.record
             branch == IF validation.has_pair THEN "complete"
                       ELSE IF Truthy(checklist) /\ ~Truthy(record) THEN "checklist"
                       ELSE IF Truthy(record) /\ ~Truthy(checklist) THEN "record"
                       ELSE "none"
         IN [complete_pairs |-> c.complete_pairs + (IF branch = "complete" THEN 1 ELSE 0),
             checklist_only |-> c.checklist_only + (IF branch = "checklist" THEN 1 ELSE 0),
             record_only |-> c.record_only + (IF branch = "record" THEN 1 ELSE 0),
             no_stamp |-> c.no_stamp + (IF validation.has_stamp # "True" THEN 1 ELSE 0)]

\* the counters with a checklist counted whether or not a record is present
RECURSIVE SummaryCounts_Overlapping(_)
SummaryCounts_Overlapping(validation_results) ==
    IF validation_results = <<>>
    THEN [complete_pairs |-> 0, checklist_only |-> 0, record_only |-> 0, no_stamp |-> 0]
    ELSE LET n == Len(validation_results)
             c == SummaryCounts_Overlapping(SubSeq(validation_results, 1, n - 1))
             result == validation_results[n]
             validation == result.validation
             checklist == result.checklist
             record == result.record
         IN [complete_pairs |-> c.complete_pairs + (IF validation.has_pair THEN 1 ELSE 0),
             checklist_only |-> c.checklist_only + (IF Truthy(checklist) THEN 1 ELSE 0),
             record_only |-> c.record_only
                             + (IF Truthy(record) /\ ~Truthy(checklist) THEN 1 ELSE 0),
             no_stamp |-> c.no_stamp + (IF validation.has_stamp = "False" THEN 1 ELSE 0)]

\* the counters after the loop over validation_results
RECURSIVE SummaryCounts(_)
SummaryCounts(validation_results) ==
    IF validation_results = <<>>
    THEN [complete_pairs |-> 0, checklist_only |-> 0, record_only |-> 0, no_stamp |-> 0]
    ELSE LET n == Len(validation_results)
             c == SummaryCounts(SubSeq(validation_results, 1, n - 1))
             result == validation_results[n]
             validation == result.validation
             checklist == result.checklist
             record == result.record
             branch == IF validation.has_pair THEN "complete"
                       ELSE IF Truthy(checklist) /\ ~Truthy(record) THEN "checklist"
                       ELSE IF Truthy(record) /\ ~Truthy(checklist) THEN "record"
                       ELSE "none"
         IN [complete_pairs |-> c.complete_pairs + (IF branch = "complete" THEN 1 ELSE 0),
             checklist_only |-> c.checklist_only + (IF branch = "checklist" THEN 1 ELSE 0),
             record_only |-> c.record_only + (IF branch = "record" THEN 1 ELSE 0),
             no_stamp |-> c.no_stamp + (IF validation.has_stamp = "False" THEN 1 ELSE 0)]

_generate_summary(validation_results) ==
    LET total_pairs == Len(validation_results)
        c == SummaryCounts(validation_results)
    IN <<SUMMARY_TOTAL \o Digits(total_pairs) \o SUMMARY_UNIT,
         SUMMARY_COMPLETE \o Digits(c.complete_pairs) \o SUMMARY_UNIT,
         SUMMARY_CHECKLIST_ONLY \o Digits(c.checklist_only) \o SUMMARY_UNIT,
         SUMMARY_RECORD_ONLY \o Digits(c.record_only) \o SUMMARY_UNIT,
         SUMMARY_NO_STAMP \o Digits(c.no_stamp) \o SUMMARY_UNIT>>

(***************************************************************************)
(* Extracted files at the edges of the lookup and comparison rules.        *)
(***************************************************************************)
S_1_15 == <<49, 58, 49, 53>>                       \* "1:15"
S_AD_1_15 == <<97, 100, 58, 49, 58, 49, 53, 32>>   \* "ad:1:15 "
S_RV_YA_ASCII == <<114, 118, 58, 32, 89, 97>>      \* "rv: Ya"
S_EMPTY == <<>>                                    \* ""

\* checklist of "P1" whose date and assignee hold a colon
FD_CL_COLON ==
    [filename |-> <<99, 50>>,
     cell_values |-> <<StrVal(S_P1), StrVal(S_1_15), StrVal(S_RV_YA_ASCII), StrVal(S_SA)>>,
     cell_labels |-> CHECKLIST_LABELS,
     image_results |-> <<>>]

\* record of "P1" whose approval date holds two colons and a trailing blank
FD_REC_COLONS ==
    [filename |-> <<114, 52>>,
     cell_values |-> <<StrVal(S_P1), StrVal(S_AD_1_15), StrVal(S_RV_YA_ASCII)>>,
     cell_labels |-> RECORD_LABELS,
     image_results |-> <<IMAGE_ABSENT, IMAGE_PRESENT>>]

\* checklist of "P1" with repeated labels, a numeric date, an empty assignee
\* and fewer values than labels
FD_CL_REPEAT ==
    [filename |-> <<99, 51>>,
     cell_values |-> <<StrVal(S_P1), IntVal(115), StrVal(S_JAN), StrVal(S_EMPTY)>>,
     cell_labels |-> <<LABEL_PROJECT_NAME, LABEL_DATE, LABEL_DATE, LABEL_ASSIGNEE,
                       LABEL_ASSIGNEE>>,
     image_results |-> <<>>]

\* record of "P1" with a numeric approval date and no value for the reviewer label
FD_REC_NUM ==
    [filename |-> <<114, 53>>,
     cell_values |-> <<StrVal(S_P1), IntVal(115)>>,
     cell_labels |-> RECORD_LABELS,
     image_results |-> <<IMAGE_ABSENT, IMAGE_UNSUPPORTED>>]

\* a dict without filename and image_results whose project name label has no value
FD_NOFILENAME ==
    [cell_values |-> <<StrVal(S_JAN)>>,
     cell_labels |-> <<LABEL_DATE, LABEL_PROJECT_NAME>>]

FILE_DATA_EDGE ==
    {FD_CL_P1, FD_REC_P1_OK, FD_CL_COLON, FD_REC_COLONS, FD_CL_REPEAT, FD_REC_NUM,
     FD_NOFILENAME, FD_REC_NOLABEL}

(***************************************************************************)
(* The report pipeline of ExcelFileChecker.run: files are added, the pairs *)
(* validated and the summary generated. The files are the edge files; the  *)
(* call history is not kept, so add_file needs no bound.                   *)
(***************************************************************************)
add_file_Edge ==
    \E file_data \in FILE_DATA_EDGE, file_type \in FILE_TYPES :
        /\ pairs' = AddFile(pairs, file_data, file_type)
        /\ ret' = None
        /\ validations' = 0
        /\ summary' = None
        /\ UNCHANGED <<calls, checker, extractor>>

\* self._generate_summary(validation_results), on the list validate_all returned
generate_summary ==
    /\ validations > 0
    /\ summary' = _generate_summary(ret)
    /\ UNCHANGED <<pairs, calls, ret, validations, checker, extractor>>

NextReport == add_file_Edge \/ validate_all \/ generate_summary

SpecReport == Init /\ [][NextReport]_vars

(***************************************************************************)
(* Vocabulary of the properties.                                           *)
(***************************************************************************)
KnownRole(c) == c.file_type \in {"checklist", "record"}
KeyOf(c) == _extract_project_name(c.file_data)
SlotOf(pair, role) == IF role = "checklist" THEN pair.checklist ELSE pair.record
Validated == validations > 0
Complete(result) == result.checklist # None /\ result.record # None

\* the calls that inserted a record with this role under this key
CallsFor(k, role) ==
    {i \in 1..Len(calls) : calls[i].file_type = role /\ KeyOf(calls[i]) = k}

\* the record of the most recent such call, None when there is none
Latest(k, role) ==
    IF CallsFor(k, role) = {} THEN None
    ELSE calls[CHOOSE i \in CallsFor(k, role) : \A j \in CallsFor(k, role) : j <= i].file_data

\* the mapping a sequence of add_file calls builds on a fresh validator
RECURSIVE Replay(_)
Replay(cs) ==
    IF cs = <<>> THEN <<>>
    ELSE AddFile(Replay(SubSeq(cs, 1, Len(cs) - 1)),
                 cs[Len(cs)].file_data, cs[Len(cs)].file_type)

\* the (project_key, role, record) triples a mapping holds
Triples(ps) ==
    {<<ps[i].project_name, "checklist", ps[i].checklist>> :
        i \in {j \in 1..Len(ps) : ps[j].checklist # None}}
    \cup {<<ps[i].project_name, "record", ps[i].record>> :
        i \in {j \in 1..Len(ps) : ps[j].record # None}}

Orderings(n) == {f \in [1..n -> 1..n] : \A i, j \in 1..n : f[i] = f[j] => i = j}

(***************************************************************************)
(* C1: add_file with a role other than checklist and record drops the      *)
(* record: every key of the mapping, and every verdict validate_all        *)
(* returns, belongs to the key of some record inserted as checklist or as  *)
(* record.                                                                 *)
(***************************************************************************)
C1_UnknownRoleDropped ==
    LET inserted == {KeyOf(calls[i]) : i \in {j \in 1..Len(calls) : KnownRole(calls[j])}}
    IN /\ \A i \in 1..Len(pairs) : pairs[i].project_name \in inserted
       /\ Validated => \A n \in 1..Len(ret) : ret[n].project_name \in inserted

(***************************************************************************)
(* C2: every pair of the mapping has its checklist or its record slot      *)
(* populated.                                                              *)
(***************************************************************************)
C2_NoEmptyPair ==
    \A i \in 1..Len(pairs) : pairs[i].checklist # None \/ pairs[i].record # None

(***************************************************************************)
(* C3: in every verdict validate_all returns, has_pair is true exactly     *)
(* when both slots of the pair are populated.                              *)
(***************************************************************************)
C3_HasPairIffBoth ==
    Validated =>
        \A n \in 1..Len(ret) : ret[n].validation.has_pair = Complete(ret[n])

(***************************************************************************)
(* C4: determinism. Every reordering of the add_file calls made so far     *)
(* that leaves the same (project_key, role, record) triples in the mapping *)
(* makes validate_all return the sequence of verdicts it returned.         *)
(***************************************************************************)
C4_Determinism ==
    Validated =>
        \A f \in Orderings(Len(calls)) :
            LET ps == Replay([i \in 1..Len(calls) |-> calls[f[i]]])
            IN Triples(ps) = Triples(pairs) => ValidateAll(ps) = ret

\* two keys were first inserted in descending order, then validated
C4_Witness ==
    /\ Validated
    /\ Len(pairs) >= 2
    /\ StrLess(pairs[2].project_name, pairs[1].project_name)
    /\ pairs[1].checklist # None
    /\ pairs[2].record # None

(***************************************************************************)
(* C5 as stated: every record passed to add_file as checklist or as record *)
(* occupies the slot of its role in exactly one pair, the pair of its key. *)
(***************************************************************************)
Reachable(c) ==
    /\ Cardinality({j \in 1..Len(pairs) : SlotOf(pairs[j], c.file_type) = c.file_data}) = 1
    /\ HasKey(pairs, KeyOf(c))
    /\ SlotOf(pairs[Slot(pairs, KeyOf(c))], c.file_type) = c.file_data

C5_EveryRecordReachable ==
    \A i \in 1..Len(calls) : KnownRole(calls[i]) => Reachable(calls[i])

(***************************************************************************)
(* C5, amended: every record passed to add_file as checklist or as record, *)
(* and not followed by a later add_file of the same role whose record      *)
(* derives the same key, occupies the slot of its role in exactly one      *)
(* pair, the pair of its key.                                              *)
(***************************************************************************)
C5_LatestRecordReachable ==
    \A i \in 1..Len(calls) :
        (/\ KnownRole(calls[i])
         /\ \A j \in CallsFor(KeyOf(calls[i]), calls[i].file_type) : j <= i)
        => Reachable(calls[i])

\* a record filed under its fallback key beside a record filed under its project name
C5_Witness ==
    /\ Len(calls) = 2
    /\ \A i \in 1..2 : KnownRole(calls[i])
    /\ ~InList(LABEL_PROJECT_NAME, calls[1].file_data.cell_labels)
    /\ InList(LABEL_PROJECT_NAME, calls[2].file_data.cell_labels)
    /\ Len(pairs) = 2

(***************************************************************************)
(* C6: last write wins. Each slot of each pair holds the record of the     *)
(* most recent add_file call of that role and key (None when there was     *)
(* none), and validate_all computes each verdict from those records.       *)
(***************************************************************************)
C6_LastWriteWins ==
    /\ \A i \in 1..Len(pairs) :
          /\ pairs[i].checklist = Latest(pairs[i].project_name, "checklist")
          /\ pairs[i].record = Latest(pairs[i].project_name, "record")
    /\ Validated =>
          \A n \in 1..Len(ret) :
              LET k == ret[n].project_name
              IN /\ ret[n].checklist = Latest(k, "checklist")
                 /\ ret[n].record = Latest(k, "record")
                 /\ ret[n].validation =
                        validate([project_name |-> k,
                                  checklist |-> Latest(k, "checklist"),
                                  record |-> Latest(k, "record")])

\* two different checklists of one key were inserted, then validated
C6_Witness ==
    /\ Validated
    /\ Len(calls) = 2
    /\ calls[1].file_type = "checklist"
    /\ calls[2].file_type = "checklist"
    /\ KeyOf(calls[1]) = KeyOf(calls[2])
    /\ calls[1].file_data # calls[2].file_data
    /\ ret[1].checklist = calls[2].file_data

(***************************************************************************)
(* C7: validate_all leaves the mapping and every slot unchanged, and a     *)
(* validate_all that follows a validate_all returns what that one did.     *)
(***************************************************************************)
C7_Idempotent ==
    [][validations' > validations =>
          /\ pairs' = pairs
          /\ Validated => ret' = ret]_vars

\* validate_all was called twice in a row on a mapping that holds a pair
C7_Witness == validations = 2 /\ Len(pairs) > 0 /\ Len(ret) = Len(pairs)

(***************************************************************************)
(* C8: validate_all returns exactly one verdict per key of the mapping,    *)
(* in strictly ascending lexicographic order of the keys.                  *)
(***************************************************************************)
C8_OnePerKeySorted ==
    Validated =>
        /\ Len(ret) = Len(pairs)
        /\ {ret[n].project_name : n \in 1..Len(ret)}
               = {pairs[i].project_name : i \in 1..Len(pairs)}
        /\ \A n, m \in 1..Len(ret) :
               n < m => StrLess(ret[n].project_name, ret[m].project_name)

\* the key inserted second sorts before the key inserted first
C8_Witness ==
    /\ Validated
    /\ Len(pairs) = 2
    /\ StrLess(pairs[2].project_name, pairs[1].project_name)
    /\ ret[1].project_name = pairs[2].project_name
    /\ ret[2].project_name = pairs[1].project_name

(***************************************************************************)
(* C9: the verdict of a pair that holds both a checklist and a record has  *)
(* status OK and no warnings exactly when date_match, reviewer_match and   *)
(* has_stamp are all true, and then has_pair is true.                      *)
(***************************************************************************)
AllTrue(v) == v.date_match = "True" /\ v.reviewer_match = "True" /\ v.has_stamp = "True"

C9_OkIffAllTrue ==
    Validated =>
        \A n \in 1..Len(ret) :
            Complete(ret[n]) =>
                LET v == ret[n].validation
                IN /\ (v.status = STATUS_OK /\ v.warnings = <<>>) <=> AllTrue(v)
                   /\ v.status = STATUS_OK <=> AllTrue(v)
                   /\ v.warnings = <<>> <=> AllTrue(v)
                   /\ AllTrue(v) => v.has_pair

\* a checklist and the stamped record that agrees with it were validated as OK
C9_Witness ==
    /\ Validated
    /\ \E n \in 1..Len(ret) :
          /\ Complete(ret[n])
          /\ ret[n].validation.status = STATUS_OK
          /\ HasColon(Str(_get_value_by_label(ret[n].record, LABEL_APPROVAL_DATE)))

(***************************************************************************)
(* C10: the verdict of a pair that holds both roles and fails a check has  *)
(* has_pair true, status "inconsistency found", and as warnings exactly    *)
(* one entry per failing check, in the order date, reviewer, stamp.        *)
(***************************************************************************)
C10_InconsistentWarnings ==
    Validated =>
        \A n \in 1..Len(ret) :
            LET v == ret[n].validation
            IN (Complete(ret[n]) /\ ~AllTrue(v)) =>
                  /\ v.has_pair
                  /\ v.status = STATUS_INCONSISTENT
                  /\ v.warnings =
                        (IF v.date_match = "False" THEN <<WARN_DATE>> ELSE <<>>)
                        \o (IF v.reviewer_match = "False" THEN <<WARN_REVIEWER>> ELSE <<>>)
                        \o (IF v.has_stamp = "False" THEN <<WARN_STAMP>> ELSE <<>>)

\* a complete pair was validated with the date as its only failing check
C10_Witness ==
    /\ Validated
    /\ \E n \in 1..Len(ret) :
          /\ Complete(ret[n])
          /\ ret[n].validation.date_match = "False"
          /\ ret[n].validation.reviewer_match = "True"
          /\ ret[n].validation.has_stamp = "True"
          /\ ret[n].validation.warnings = <<WARN_DATE>>

(***************************************************************************)
(* Vocabulary of the rules, stated over the lists of a record.             *)
(***************************************************************************)
Min(S) == CHOOSE x \in S : \A y \in S : x <= y
LabelsOf(d) == IF "cell_labels" \in DOMAIN d THEN d.cell_labels ELSE <<>>
ValuesOf(d) == IF "cell_values" \in DOMAIN d THEN d.cell_values ELSE <<>>
ImagesOf(d) == IF "image_results" \in DOMAIN d THEN d.image_results ELSE <<>>
Positions(d, label) == {i \in 1..Len(LabelsOf(d)) : LabelsOf(d)[i] = label}

\* the label occurs and its first position holds a value
Found(d, label) ==
    Positions(d, label) # {} /\ Min(Positions(d, label)) <= Len(ValuesOf(d))
ValueAt(d, label) == ValuesOf(d)[Min(Positions(d, label))]

ChecklistOnly(result) == result.checklist # None /\ result.record = None
RecordOnly(result) == result.checklist = None /\ result.record # None
Stamped(d) == \E i \in 1..Len(ImagesOf(d)) : ImagesOf(d)[i] = IMAGE_PRESENT

(***************************************************************************)
(* C11: the verdict of a pair that holds only a checklist is has_pair      *)
(* false, date_match, reviewer_match and has_stamp None, status "missing   *)
(* record" and the one warning "record document not found", whatever the   *)
(* checklist holds.                                                        *)
(***************************************************************************)
C11_ChecklistOnlyVerdict ==
    Validated =>
        \A n \in 1..Len(ret) :
            ChecklistOnly(ret[n]) =>
                ret[n].validation =
                    [has_pair |-> FALSE,
                     date_match |-> "None",
                     reviewer_match |-> "None",
                     has_stamp |-> "None",
                     status |-> STATUS_NO_RECORD,
                     warnings |-> <<WARN_NO_RECORD>>]

\* two checklist-only pairs were validated, one holding a stamped file, one a file
\* without image_results
C11_Witness ==
    /\ Validated
    /\ \E n, m \in 1..Len(ret) :
          /\ ChecklistOnly(ret[n]) /\ Stamped(ret[n].checklist)
          /\ ChecklistOnly(ret[m]) /\ "image_results" \notin DOMAIN ret[m].checklist

(***************************************************************************)
(* C12: the verdict of a pair that holds only a record has has_pair false  *)
(* and has_stamp as the stamp rule gives it; stamped, the status is        *)
(* "missing checklist" with the one warning "checklist document not        *)
(* found"; not stamped, the status is "missing checklist, missing stamp"   *)
(* with that warning followed by "stamp missing".                          *)
(***************************************************************************)
C12_RecordOnlyVerdict ==
    Validated =>
        \A n \in 1..Len(ret) :
            RecordOnly(ret[n]) =>
                LET v == ret[n].validation
                IN /\ v.has_pair = FALSE
                   /\ v.has_stamp = PyBool(Stamped(ret[n].record))
                   /\ Stamped(ret[n].record) =>
                         /\ v.status = STATUS_NO_CHECKLIST
                         /\ v.warnings = <<WARN_NO_CHECKLIST>>
                   /\ ~Stamped(ret[n].record) =>
                         /\ v.status = STATUS_NO_CHECKLIST_NO_STAMP
                         /\ v.warnings = <<WARN_NO_CHECKLIST, WARN_STAMP>>

\* a stamped and an unstamped record-only pair were validated
C12_Witness ==
    /\ Validated
    /\ \E n, m \in 1..Len(ret) :
          /\ RecordOnly(ret[n]) /\ ret[n].validation.has_stamp = "True"
          /\ RecordOnly(ret[m]) /\ ret[m].validation.has_stamp = "False"
          /\ Len(ret[m].validation.warnings) = 2

(***************************************************************************)
(* The comparison of the date and reviewer rules, stated over the text.    *)
(***************************************************************************)
\* the text after the first colon of s
SuffixAfterColon(s) ==
    LET i == Min({j \in 1..Len(s) : s[j] = COLON[1]})
    IN [k \in 1..(Len(s) - i) |-> s[i + k]]

\* t without its leading and trailing blanks
RECURSIVE Trimmed(_)
Trimmed(t) ==
    IF t # <<>> /\ t[1] \in WHITESPACE THEN Trimmed(Tail(t))
    ELSE IF t # <<>> /\ t[Len(t)] \in WHITESPACE THEN Trimmed(SubSeq(t, 1, Len(t) - 1))
    ELSE t

\* the record-side text the checklist value is compared with
Reduced(s) ==
    IF \E j \in 1..Len(s) : s[j] = COLON[1] THEN Trimmed(SuffixAfterColon(s)) ELSE s

\* both values are found and the checklist text is the reduced record text
Matches(checklist, checklist_label, record, record_label) ==
    /\ Found(checklist, checklist_label)
    /\ Found(record, record_label)
    /\ Str(ValueAt(checklist, checklist_label)) = Reduced(Str(ValueAt(record, record_label)))

(***************************************************************************)
(* C13: in the verdict of a complete pair date_match is false when the     *)
(* checklist has no "date" value or the record no "approval date" value;   *)
(* otherwise it is true exactly when the checklist value, as a string,     *)
(* equals the record value reduced to the trimmed text after its first     *)
(* colon (the whole text when it has no colon).                            *)
(***************************************************************************)
C13_DateRule ==
    Validated =>
        \A n \in 1..Len(ret) :
            Complete(ret[n]) =>
                ret[n].validation.date_match =
                    PyBool(Matches(ret[n].checklist, LABEL_DATE,
                                   ret[n].record, LABEL_APPROVAL_DATE))

\* a complete pair matched on a record date with two colons and a trailing blank
C13_Witness ==
    /\ Validated
    /\ \E n \in 1..Len(ret) :
          /\ Complete(ret[n])
          /\ ret[n].validation.date_match = "True"
          /\ Found(ret[n].record, LABEL_APPROVAL_DATE)
          /\ LET s == Str(ValueAt(ret[n].record, LABEL_APPROVAL_DATE))
             IN /\ Cardinality({j \in 1..Len(s) : s[j] = COLON[1]}) = 2
                /\ s[Len(s)] \in WHITESPACE

(***************************************************************************)
(* C14: in the verdict of a complete pair reviewer_match follows the same  *)
(* rule on the checklist's "reviewer/assignee" value and the record's      *)
(* "reviewer" value.                                                       *)
(***************************************************************************)
C14_ReviewerRule ==
    Validated =>
        \A n \in 1..Len(ret) :
            Complete(ret[n]) =>
                ret[n].validation.reviewer_match =
                    PyBool(Matches(ret[n].checklist, LABEL_ASSIGNEE,
                                   ret[n].record, LABEL_REVIEWER))

\* a complete pair whose checklist value carries the prefix the record value
\* loses, so that equal texts do not match
C14_Witness ==
    /\ Validated
    /\ \E n \in 1..Len(ret) :
          /\ Complete(ret[n])
          /\ ret[n].validation.reviewer_match = "False"
          /\ Found(ret[n].checklist, LABEL_ASSIGNEE)
          /\ Found(ret[n].record, LABEL_REVIEWER)
          /\ ValueAt(ret[n].checklist, LABEL_ASSIGNEE) = ValueAt(ret[n].record, LABEL_REVIEWER)

(***************************************************************************)
(* C15: whenever a verdict's pair holds a record, has_stamp is true        *)
(* exactly when the record's image_results holds at least one "present"    *)
(* marker; an empty or missing list, or one of "absent" and "unsupported"  *)
(* markers only, gives false.                                              *)
(***************************************************************************)
C15_StampRule ==
    Validated =>
        \A n \in 1..Len(ret) :
            ret[n].record # None =>
                ret[n].validation.has_stamp = PyBool(Stamped(ret[n].record))

\* a record stamped on its second image only, and a record without images,
\* were validated
C15_Witness ==
    /\ Validated
    /\ \E n, m \in 1..Len(ret) :
          /\ ret[n].record # None
          /\ ImagesOf(ret[n].record) = <<IMAGE_ABSENT, IMAGE_PRESENT>>
          /\ ret[n].validation.has_stamp = "True"
          /\ ret[m].record # None
          /\ ImagesOf(ret[m].record) = <<>>
          /\ ret[m].validation.has_stamp = "False"

(***************************************************************************)
(* C16: in every verdict date_match and reviewer_match are None exactly    *)
(* when the pair is incomplete (a role is missing); when both roles are    *)
(* present they are booleans, and a value that is not found makes the      *)
(* flag false, never None.                                                 *)
(***************************************************************************)
C16_NoneIffIncomplete ==
    Validated =>
        \A n \in 1..Len(ret) :
            LET v == ret[n].validation
            IN /\ ~Complete(ret[n]) <=>
                      (v.date_match = "None" /\ v.reviewer_match = "None")
               /\ Complete(ret[n]) =>
                     /\ v.date_match \in {"True", "False"}
                     /\ v.reviewer_match \in {"True", "False"}
                     /\ (~Found(ret[n].checklist, LABEL_DATE)
                         \/ ~Found(ret[n].record, LABEL_APPROVAL_DATE))
                            => v.date_match = "False"
                     /\ (~Found(ret[n].checklist, LABEL_ASSIGNEE)
                         \/ ~Found(ret[n].record, LABEL_REVIEWER))
                            => v.reviewer_match = "False"

(***************************************************************************)
(* C17: the key of a record is the string form of the value found under    *)
(* "project name"; the fallback "Unknown_" followed by the file name (or   *)
(* by "Unknown" when the record has no file name) is used exactly when the *)
(* label is not among the record's labels or its first position lies      *)
(* beyond the record's values.                                             *)
(***************************************************************************)
ExpectedKey(d) ==
    IF Found(d, LABEL_PROJECT_NAME) THEN Str(ValueAt(d, LABEL_PROJECT_NAME))
    ELSE UNKNOWN_PREFIX
         \o (IF "filename" \in DOMAIN d THEN d.filename ELSE UNKNOWN_FILENAME)

C17_ProjectKey ==
    \A i \in 1..Len(pairs) :
        /\ pairs[i].checklist # None =>
               pairs[i].project_name = ExpectedKey(pairs[i].checklist)
        /\ pairs[i].record # None =>
               pairs[i].project_name = ExpectedKey(pairs[i].record)
        /\ \E d \in FILE_DATA_EDGE : pairs[i].project_name = ExpectedKey(d)

\* the mapping holds a record filed under the value of its label, one filed
\* under the fallback because its label has no value, and one filed under the
\* fallback because it has no such label
C17_Witness ==
    \E i, j, k \in 1..Len(pairs) :
        /\ pairs[i].checklist # None
        /\ Found(pairs[i].checklist, LABEL_PROJECT_NAME)
        /\ pairs[j].checklist # None
        /\ Positions(pairs[j].checklist, LABEL_PROJECT_NAME) # {}
        /\ ~Found(pairs[j].checklist, LABEL_PROJECT_NAME)
        /\ pairs[j].project_name = UNKNOWN_PREFIX \o UNKNOWN_FILENAME
        /\ pairs[k].record # None
        /\ Positions(pairs[k].record, LABEL_PROJECT_NAME) = {}
        /\ pairs[k].project_name = UNKNOWN_PREFIX \o pairs[k].record.filename

(***************************************************************************)
(* C18: the lookup of a label in a record returns the value at the first   *)
(* position where the label occurs, and None when the label does not occur *)
(* or that position lies beyond the values; the records a verdict is       *)
(* computed from are afterwards the records the mapping holds, unmodified. *)
(***************************************************************************)
LABELS ==
    {LABEL_PROJECT_NAME, LABEL_DATE, LABEL_APPROVAL_DATE,
     LABEL_ASSIGNEE, LABEL_REVIEWER, LABEL_APPROVER}

Held == {pairs[i].checklist : i \in 1..Len(pairs)} \cup {pairs[i].record : i \in 1..Len(pairs)}

C18_FirstMatchLookup ==
    /\ \A d \in Held \ {None} : \A label \in LABELS :
           _get_value_by_label(d, label) =
               IF Found(d, label) THEN ValueAt(d, label) ELSE None
    /\ Validated =>
           /\ Len(ret) = Len(pairs)
           /\ \A n \in 1..Len(ret) : \E i \in 1..Len(pairs) :
                  /\ pairs[i].project_name = ret[n].project_name
                  /\ pairs[i].checklist = ret[n].checklist
                  /\ pairs[i].record = ret[n].record
                  /\ \E d \in FILE_DATA_EDGE \cup {None} : ret[n].checklist = d
                  /\ \E d \in FILE_DATA_EDGE \cup {None} : ret[n].record = d

\* a checklist that carries the date label twice, with different values, was
\* validated against a record that matches the first value only
C18_Witness ==
    /\ Validated
    /\ \E n \in 1..Len(ret) :
          /\ Complete(ret[n])
          /\ Cardinality(Positions(ret[n].checklist, LABEL_DATE)) = 2
          /\ \E i, j \in Positions(ret[n].checklist, LABEL_DATE) :
                 /\ i < j
                 /\ j <= Len(ValuesOf(ret[n].checklist))
                 /\ ValuesOf(ret[n].checklist)[i] # ValuesOf(ret[n].checklist)[j]
          /\ ret[n].validation.date_match = "True"

(***************************************************************************)
(* C19: the engine is total on extracted records: whatever labels are      *)
(* present or missing, however short cell_values is, with empty or missing *)
(* image_results and with a missing file name, every insertion leaves a    *)
(* mapping of pairs and every validation returns one verdict, of the       *)
(* verdict's form, for every pair of the mapping.                          *)
(***************************************************************************)
STATUSES ==
    {STATUS_OK, STATUS_INCONSISTENT, STATUS_NO_RECORD,
     STATUS_NO_CHECKLIST, STATUS_NO_CHECKLIST_NO_STAMP}

WARNINGS == {WARN_NO_RECORD, WARN_NO_CHECKLIST, WARN_DATE, WARN_REVIEWER, WARN_STAMP}

IsVerdict(v) ==
    /\ DOMAIN v =
           {"has_pair", "date_match", "reviewer_match", "has_stamp", "status", "warnings"}
    /\ v.has_pair \in BOOLEAN
    /\ v.date_match \in {"True", "False", "None"}
    /\ v.reviewer_match \in {"True", "False", "None"}
    /\ v.has_stamp \in {"True", "False", "None"}
    /\ v.status \in STATUSES
    /\ \A i \in 1..Len(v.warnings) : v.warnings[i] \in WARNINGS

C19_Total ==
    /\ \A i \in 1..Len(pairs) :
           /\ DOMAIN pairs[i] = {"project_name", "checklist", "record"}
           /\ pairs[i].checklist \in FILE_DATA_EDGE \cup {None}
           /\ pairs[i].record \in FILE_DATA_EDGE \cup {None}
    /\ Validated =>
           /\ \A i \in 1..Len(pairs) : \E n \in 1..Len(ret) :
                  ret[n].project_name = pairs[i].project_name
           /\ \A n \in 1..Len(ret) :
                  /\ DOMAIN ret[n] = {"project_name", "checklist", "record", "validation"}
                  /\ IsVerdict(ret[n].validation)

\* verdicts were returned for a record without file name and image_results
\* and for a complete pair whose record has the reviewer label but too few
\* values, next to a pair without any record
C19_Witness ==
    /\ Validated
    /\ \E n, m, e \in 1..Len(ret) :
          /\ RecordOnly(ret[n])
          /\ "filename" \notin DOMAIN ret[n].record
          /\ "image_results" \notin DOMAIN ret[n].record
          /\ IsVerdict(ret[n].validation)
          /\ Complete(ret[m])
          /\ Positions(ret[m].record, LABEL_REVIEWER) # {}
          /\ ~Found(ret[m].record, LABEL_REVIEWER)
          /\ IsVerdict(ret[m].validation)
          /\ ChecklistOnly(ret[e])
          /\ IsVerdict(ret[e].validation)

(***************************************************************************)
(* C20: the summary over the list of verdicts reports, in this order, the  *)
(* total as the number of verdicts, the complete pairs as the number of    *)
(* verdicts with has_pair true, checklist-only as the number with a        *)
(* checklist and no record, record-only as the number with a record and no *)
(* checklist, and no-stamp as the number of verdicts whose has_stamp is    *)
(* False, a has_stamp of None not being counted.                           *)
(***************************************************************************)
Count(P(_)) == Cardinality({n \in 1..Len(ret) : P(ret[n])})
HasPair(result) == result.validation.has_pair
NoStamp(result) == result.validation.has_stamp = "False"
SummaryLine(prefix, n) == prefix \o Digits(n) \o SUMMARY_UNIT

C20_SummaryCounts ==
    summary # None =>
        summary = <<SummaryLine(SUMMARY_TOTAL, Len(ret)),
                    SummaryLine(SUMMARY_COMPLETE, Count(HasPair)),
                    SummaryLine(SUMMARY_CHECKLIST_ONLY, Count(ChecklistOnly)),
                    SummaryLine(SUMMARY_RECORD_ONLY, Count(RecordOnly)),
                    SummaryLine(SUMMARY_NO_STAMP, Count(NoStamp))>>

\* a summary was made of a complete pair, a checklist-only pair whose
\* has_stamp is None and a record-only pair without stamp
C20_Witness ==
    /\ summary # None
    /\ Len(ret) = 3
    /\ Count(HasPair) = 1
    /\ Count(ChecklistOnly) = 1
    /\ Count(RecordOnly) = 1
    /\ Count(NoStamp) = 1
    /\ \E n \in 1..Len(ret) : ret[n].validation.has_stamp = "None"

(***************************************************************************)
(* C22: a pair is created only by the first add_file call that derives its *)
(* key, and no add_file or validate_all call removes a pair: every step    *)
(* keeps the keys the mapping has, adds at most one key, and adds one      *)
(* exactly when it is an add_file call whose key no earlier call derived.  *)
(***************************************************************************)
C22_KeysGrow ==
    [][/\ Len(pairs') >= Len(pairs)
       /\ Len(pairs') <= Len(pairs) + 1
       /\ \A i \in 1..Len(pairs) : pairs'[i].project_name = pairs[i].project_name
       /\ Len(calls') = Len(calls) =>
              Len(pairs') = Len(pairs)
       /\ Len(calls') = Len(calls) + 1 =>
              LET k == KeyOf(calls'[Len(calls')])
                  first == \A j \in 1..Len(calls) : KeyOf(calls[j]) # k
              IN /\ first <=> Len(pairs') = Len(pairs) + 1
                 /\ first => pairs'[Len(pairs')].project_name = k]_vars

\* two calls derived the same key, one pair exists, and it was validated
C22_Witness ==
    /\ Len(calls) = 2
    /\ KeyOf(calls[1]) = KeyOf(calls[2])
    /\ Len(pairs) = 1
    /\ pairs[1].project_name = KeyOf(calls[1])
    /\ Validated

(***************************************************************************)
(* C25: an add_file call with role checklist or record changes only the    *)
(* slot of that role in the pair of the record's key: that slot becomes    *)
(* the record as it was passed, the other slot of the pair keeps its value *)
(* (None in a pair the call creates), and every other pair is unchanged.   *)
(***************************************************************************)
OtherRole(role) == IF role = "checklist" THEN "record" ELSE "checklist"

C25_AddFileFrame ==
    [][(Len(calls') = Len(calls) + 1 /\ KnownRole(calls'[Len(calls')])) =>
          LET c == calls'[Len(calls')]
              k == KeyOf(c)
          IN /\ \A i \in 1..Len(pairs) :
                    IF pairs[i].project_name # k THEN pairs'[i] = pairs[i]
                    ELSE /\ pairs'[i].project_name = k
                         /\ SlotOf(pairs'[i], c.file_type) = c.file_data
                         /\ SlotOf(pairs'[i], OtherRole(c.file_type))
                                = SlotOf(pairs[i], OtherRole(c.file_type))
             /\ \A i \in (Len(pairs) + 1)..Len(pairs') :
                    /\ pairs'[i].project_name = k
                    /\ SlotOf(pairs'[i], c.file_type) = c.file_data
                    /\ SlotOf(pairs'[i], OtherRole(c.file_type)) = None]_vars

\* a record was added to the pair that held a checklist, next to no other
\* pair, and the checklist is still the one that was inserted
C25_Witness ==
    /\ Len(calls) = 2
    /\ calls[1].file_type = "checklist"
    /\ calls[2].file_type = "record"
    /\ KeyOf(calls[1]) = KeyOf(calls[2])
    /\ Len(pairs) = 1
    /\ pairs[1].checklist = calls[1].file_data
    /\ pairs[1].record = calls[2].file_data

(***************************************************************************)
(* C26: after any sequence of add_file calls every populated slot of every *)
(* pair holds a record whose derived key is the key of the pair, no two    *)
(* pairs have the same key, and the checklist and the record of one pair   *)
(* have equal derived keys; a verdict carries these under the same key.    *)
(***************************************************************************)
C26_KeyConsistency ==
    /\ \A i \in 1..Len(pairs) :
           /\ pairs[i].checklist # None =>
                  _extract_project_name(pairs[i].checklist) = pairs[i].project_name
           /\ pairs[i].record # None =>
                  _extract_project_name(pairs[i].record) = pairs[i].project_name
           /\ (pairs[i].checklist # None /\ pairs[i].record # None) =>
                  _extract_project_name(pairs[i].checklist)
                      = _extract_project_name(pairs[i].record)
           /\ \A j \in 1..Len(pairs) :
                  pairs[i].project_name = pairs[j].project_name => i = j
    /\ Validated =>
           \A n \in 1..Len(ret) :
               /\ ret[n].checklist # None =>
                      _extract_project_name(ret[n].checklist) = ret[n].project_name
               /\ ret[n].record # None =>
                      _extract_project_name(ret[n].record) = ret[n].project_name

\* a checklist and a record from different files share a validated pair
C26_Witness ==
    /\ Validated
    /\ \E n \in 1..Len(ret) :
          /\ Complete(ret[n])
          /\ ret[n].checklist.filename # ret[n].record.filename
          /\ ret[n].checklist.cell_values # ret[n].record.cell_values
          /\ _extract_project_name(ret[n].checklist) = ret[n].project_name

(***************************************************************************)
(* C27: in every verdict validate_all returns the warnings are empty       *)
(* exactly when the status is OK; every other status has a warning.        *)
(***************************************************************************)
C27_WarningsIffNotOk ==
    Validated =>
        \A n \in 1..Len(ret) :
            (ret[n].validation.warnings = <<>>) <=> (ret[n].validation.status = STATUS_OK)

\* a verdict whose only inconsistency is the missing stamp was returned
C27_Witness ==
    /\ Validated
    /\ \E n \in 1..Len(ret) :
          /\ ret[n].validation.status = STATUS_INCONSISTENT
          /\ ret[n].validation.date_match = "True"
          /\ ret[n].validation.reviewer_match = "True"
          /\ Len(ret[n].validation.warnings) = 1

(***************************************************************************)
(* C28: the counts the summary reports over the verdicts of validate_all   *)
(* satisfy complete + checklist-only + record-only = total and             *)
(* no-stamp <= complete + record-only.                                     *)
(***************************************************************************)
\* the count a summary line reports
Reported(line, prefix) == CHOOSE n \in 0..Len(ret) : line = SummaryLine(prefix, n)

C28_SummaryPartition ==
    summary # None =>
        /\ \A l \in 1..5 : \E n \in 0..Len(ret) :
               summary[l] = SummaryLine(<<SUMMARY_TOTAL, SUMMARY_COMPLETE,
                                          SUMMARY_CHECKLIST_ONLY, SUMMARY_RECORD_ONLY,
                                          SUMMARY_NO_STAMP>>[l], n)
        /\ Reported(summary[2], SUMMARY_COMPLETE)
               + Reported(summary[3], SUMMARY_CHECKLIST_ONLY)
               + Reported(summary[4], SUMMARY_RECORD_ONLY)
           = Reported(summary[1], SUMMARY_TOTAL)
        /\ Reported(summary[5], SUMMARY_NO_STAMP)
               <= Reported(summary[2], SUMMARY_COMPLETE)
                  + Reported(summary[4], SUMMARY_RECORD_ONLY)

\* a summary of two complete pairs and a record-only pair, none of them
\* stamped: the bound on the no-stamp count is attained
C28_Witness ==
    /\ summary # None
    /\ Reported(summary[1], SUMMARY_TOTAL) = 3
    /\ Reported(summary[2], SUMMARY_COMPLETE) = 2
    /\ Reported(summary[3], SUMMARY_CHECKLIST_ONLY) = 0
    /\ Reported(summary[4], SUMMARY_RECORD_ONLY) = 1
    /\ Reported(summary[5], SUMMARY_NO_STAMP) = 3
    /\ \A n \in 1..Len(ret) : ret[n].record # None

(***************************************************************************)
(* C30: only the record-side value loses its text up to the first colon:   *)
(* in a complete pair whose record value holds a colon, a checklist value  *)
(* that is the same string as the record value gives a false flag, and a   *)
(* checklist value that is exactly the trimmed text after the record       *)
(* value's first colon gives a true flag, for the date and for the         *)
(* reviewer.                                                               *)
(***************************************************************************)
RecordSideOnly(result, checklist_label, record_label, flag) ==
    (Found(result.checklist, checklist_label) /\ Found(result.record, record_label)) =>
        LET c == Str(ValueAt(result.checklist, checklist_label))
            r == Str(ValueAt(result.record, record_label))
        IN (\E j \in 1..Len(r) : r[j] = COLON[1]) =>
               /\ c = r => flag = "False"
               /\ c = Trimmed(SuffixAfterColon(r)) => flag = "True"

C30_RecordSideOnly ==
    Validated =>
        \A n \in 1..Len(ret) :
            Complete(ret[n]) =>
                /\ RecordSideOnly(ret[n], LABEL_DATE, LABEL_APPROVAL_DATE,
                                  ret[n].validation.date_match)
                /\ RecordSideOnly(ret[n], LABEL_ASSIGNEE, LABEL_REVIEWER,
                                  ret[n].validation.reviewer_match)

\* one complete pair shows both cases: its reviewer values are the same
\* prefixed string and do not match, its checklist date is the text after the
\* record date's first colon and matches
C30_Witness ==
    /\ Validated
    /\ \E n \in 1..Len(ret) :
          /\ Complete(ret[n])
          /\ Found(ret[n].checklist, LABEL_ASSIGNEE) /\ Found(ret[n].record, LABEL_REVIEWER)
          /\ Found(ret[n].checklist, LABEL_DATE) /\ Found(ret[n].record, LABEL_APPROVAL_DATE)
          /\ LET c == Str(ValueAt(ret[n].checklist, LABEL_ASSIGNEE))
                 r == Str(ValueAt(ret[n].record, LABEL_REVIEWER))
                 d == Str(ValueAt(ret[n].checklist, LABEL_DATE))
                 a == Str(ValueAt(ret[n].record, LABEL_APPROVAL_DATE))
             IN /\ c = r
                /\ \E j \in 1..Len(r) : r[j] = COLON[1]
                /\ ret[n].validation.reviewer_match = "False"
                /\ \E j \in 1..Len(a) : a[j] = COLON[1]
                /\ d = Trimmed(SuffixAfterColon(a))
                /\ ret[n].validation.date_match = "True"

(***************************************************************************)
(* class CellExtractor (src/src/cell_extractor.py)                         *)
(*                                                                         *)
(* A file is its suffix, whether the library can read it, and the rows of  *)
(* its first sheet: a rectangular list of rows of cells, a cell being a    *)
(* cell value or EMPTY_CELL. pandas gives NaN for an empty cell, openpyxl  *)
(* gives None. A call that can raise gives [raise |-> the class] or, for a  *)
(* returned list, [return |-> the list].                                   *)
(***************************************************************************)
MaxCellList == 2

EMPTY_CELL == [empty |-> TRUE]
Raise(class) == [raise |-> class]
Return(list) == [return |-> list]
IsRaise(x) == "raise" \in DOMAIN x

SUFFIX_CSV == <<46, 99, 115, 118>>         \* ".csv"
SUFFIX_CSV_UPPER == <<46, 67, 83, 86>>   \* ".CSV"
SUFFIX_XLS == <<46, 120, 108, 115>>        \* ".xls"
SUFFIX_XLSX == <<46, 120, 108, 115, 120>>  \* ".xlsx"
SUFFIX_TXT == <<46, 116, 120, 116>>        \* ".txt"
SUPPORTED_EXTENSIONS == {SUFFIX_XLSX, SUFFIX_XLS, SUFFIX_CSV}

\* str.lower and str.upper on the letters A-Z, a-z; the other code points of
\* the model's strings have no case
LowerStr(s) == [i \in 1..Len(s) |-> IF s[i] \in 65..90 THEN s[i] + 32 ELSE s[i]]
UpperStr(s) == [i \in 1..Len(s) |-> IF s[i] \in 97..122 THEN s[i] - 32 ELSE s[i]]

\* the length of the longest run of code points of s from position from that
\* lie in set
RECURSIVE RunLength(_, _, _)
RunLength(s, from, set) ==
    IF from > Len(s) \/ s[from] \notin set THEN 0
    ELSE 1 + RunLength(s, from + 1, set)

\* int(digits), and the column letters read in base 26
RECURSIVE ParseInt(_)
ParseInt(digits) ==
    IF digits = <<>> THEN 0
    ELSE ParseInt(SubSeq(digits, 1, Len(digits) - 1)) * 10 + (digits[Len(digits)] - 48)

RECURSIVE ParseColumn(_)
ParseColumn(col_letters) ==
    IF col_letters = <<>> THEN 0
    ELSE ParseColumn(SubSeq(col_letters, 1, Len(col_letters) - 1)) * 26
         + (col_letters[Len(col_letters)] - 65 + 1)

\* _parse_cell_address: re.match(r'([A-Z]+)(\d+)', cell_address.upper()), then
\* the 0-indexed (row_index, col_index), or ValueError
_parse_cell_address(cell_address) ==
    LET upper == UpperStr(cell_address)
        nl == RunLength(upper, 1, 65..90)
        nd == RunLength(upper, nl + 1, 48..57)
    IN IF nl = 0 \/ nd = 0 THEN Raise("ValueError")
       ELSE [row_index |-> ParseInt(SubSeq(upper, nl + 1, nl + nd)) - 1,
             col_index |-> ParseColumn(SubSeq(upper, 1, nl)) - 1]

\* df.iloc[row, col] on the frame of the rows: a negative index counts from
\* the end, an index beyond the frame is an IndexError, an empty cell is NaN
iloc(rows, row, col) ==
    LET nrows == Len(rows)
        ncols == IF rows = <<>> THEN 0 ELSE Len(rows[1])
    IN IF row >= nrows \/ row < 0 - nrows \/ col >= ncols \/ col < 0 - ncols
       THEN Raise("IndexError")
       ELSE rows[(IF row < 0 THEN row + nrows ELSE row) + 1]
                [(IF col < 0 THEN col + ncols ELSE col) + 1]

\* the loop of _extract_from_csv and _extract_from_excel_with_pandas over a
\* frame: a ValueError of _parse_cell_address leaves the loop
PandasValues(rows, cell_list) ==
    IF \E i \in 1..Len(cell_list) : IsRaise(_parse_cell_address(cell_list[i]))
    THEN Raise("RuntimeError")
    ELSE Return([i \in 1..Len(cell_list) |->
            LET at == _parse_cell_address(cell_list[i])
                cell_value == iloc(rows, at.row_index, at.col_index)
            IN IF IsRaise(cell_value) \/ cell_value = EMPTY_CELL
               THEN StrVal(S_EMPTY) ELSE cell_value])

\* pd.read_csv(header=None) raises on a file it cannot parse and on a file
\* without data (EmptyDataError)
_extract_from_csv(self, cell_list) ==
    IF ~self.file.readable \/ self.file.rows = <<>> THEN Raise("RuntimeError")
    ELSE PandasValues(self.file.rows, cell_list)

\* pd.read_excel(header=None) gives an empty frame for an empty sheet
_extract_from_excel_with_pandas(self, cell_list) ==
    IF ~self.file.readable THEN Raise("RuntimeError")
    ELSE PandasValues(self.file.rows, cell_list)

\* sheet[cell_address].value of openpyxl: the key must be column letters and
\* a row number from 1, in either case, and nothing else; another key raises
\* or gives no cell; a cell beyond the stored rows is an empty cell
SheetValue(rows, cell_address) ==
    LET upper == UpperStr(cell_address)
        nl == RunLength(upper, 1, 65..90)
        nd == RunLength(upper, nl + 1, 48..57)
        row == ParseInt(SubSeq(upper, nl + 1, nl + nd))
        col == ParseColumn(SubSeq(upper, 1, nl))
    IN IF nl = 0 \/ nd = 0 \/ nl + nd # Len(upper) \/ row < 1 THEN Raise("ValueError")
       ELSE IF row > Len(rows) \/ col > Len(rows[row]) \/ rows[row][col] = EMPTY_CELL
       THEN None
       ELSE rows[row][col]

_extract_from_excel(self, cell_list) ==
    IF self.file_extension = SUFFIX_XLS
    THEN _extract_from_excel_with_pandas(self, cell_list)
    ELSE IF ~self.file.readable THEN Raise("RuntimeError")
    ELSE Return([i \in 1..Len(cell_list) |->
            LET cell_value == SheetValue(self.file.rows, cell_list[i])
            IN IF IsRaise(cell_value) \/ cell_value = None
               THEN StrVal(S_EMPTY) ELSE cell_value])

extract_cells(self, cell_list) ==
    IF self.file_extension = SUFFIX_CSV THEN _extract_from_csv(self, cell_list)
    ELSE _extract_from_excel(self, cell_list)

\* CellExtractor(file_path): the object, or the exception __init__ raises
CellExtractor(file) ==
    IF ~file.exists THEN Raise("FileNotFoundError")
    ELSE IF LowerStr(file.extension) \notin SUPPORTED_EXTENSIONS THEN Raise("ValueError")
    ELSE [file |-> file, file_extension |-> LowerStr(file.extension)]

(***************************************************************************)
(* Files and cell lists.                                                   *)
(***************************************************************************)
ROWS_NONE == <<>>
ROWS_1X2 == <<<<StrVal(S_JAN), EMPTY_CELL>>>>
ROWS_2X2 == <<<<StrVal(S_P1), IntVal(115)>>, <<EMPTY_CELL, StrVal(S_SA)>>>>

CELL_FILES ==
    [extension : {SUFFIX_CSV, SUFFIX_CSV_UPPER, SUFFIX_XLS, SUFFIX_XLSX},
     exists : {TRUE}, readable : {TRUE}, rows : {ROWS_NONE, ROWS_1X2, ROWS_2X2}]
    \cup [extension : {SUFFIX_CSV, SUFFIX_XLSX}, exists : {TRUE},
          readable : {FALSE}, rows : {ROWS_NONE}]
    \cup {[extension |-> SUFFIX_TXT, exists |-> TRUE, readable |-> TRUE, rows |-> ROWS_1X2],
          [extension |-> SUFFIX_XLSX, exists |-> FALSE, readable |-> FALSE, rows |-> ROWS_NONE]}

ADDR_A1 == <<65, 49>>          \* "A1"
ADDR_B1 == <<66, 49>>          \* "B1"
ADDR_A2_LOWER == <<97, 50>>    \* "a2"
ADDR_B2 == <<66, 50>>          \* "B2"
ADDR_C1 == <<67, 49>>          \* "C1"
ADDR_Z99 == <<90, 57, 57>>     \* "Z99"
ADDR_AA1 == <<65, 65, 49>>     \* "AA1"
ADDR_A0 == <<65, 48>>          \* "A0"
ADDR_1A == <<49, 65>>          \* "1A"

CELL_ADDRESSES ==
    {ADDR_A1, ADDR_B1, ADDR_A2_LOWER, ADDR_B2, ADDR_C1, ADDR_Z99, ADDR_AA1,
     ADDR_A0, ADDR_1A}

CELL_LISTS ==
    UNION {[1..n -> CELL_ADDRESSES] : n \in 0..MaxCellList}

(***************************************************************************)
(* The extractor: it is constructed on a file, then asked for cells.       *)
(***************************************************************************)
new_CellExtractor ==
    \E file \in CELL_FILES :
        /\ extractor' = [self |-> CellExtractor(file), called |-> FALSE,
                         cell_list |-> <<>>, values |-> None]
        /\ UNCHANGED <<pairs, calls, ret, validations, summary, checker>>

call_extract_cells ==
    \E cell_list \in CELL_LISTS :
        /\ extractor # None
        /\ ~IsRaise(extractor.self)
        /\ extractor' = [extractor EXCEPT !.called = TRUE,
                                          !.cell_list = cell_list,
                                          !.values = extract_cells(extractor.self, cell_list)]
        /\ UNCHANGED <<pairs, calls, ret, validations, summary, checker>>

NextExtract == new_CellExtractor \/ call_extract_cells

SpecExtract == Init /\ [][NextExtract]_vars

(***************************************************************************)
(* C24: on a readable file extract_cells returns one value for every       *)
(* requested cell coordinate, in the order of the request: the value of    *)
(* the cell, and the empty string when the coordinate lies outside the     *)
(* rows and columns of the file or the cell is empty.                      *)
(***************************************************************************)
\* a coordinate is column letters followed by a row number
IsCoordinate(a) ==
    \E k \in 1..(Len(a) - 1) :
        /\ \A i \in 1..k : a[i] \in (65..90) \cup (97..122)
        /\ \A i \in (k + 1)..Len(a) : a[i] \in 48..57

\* the name of the c-th column of a sheet, and the column and the row a
\* coordinate names, both counted from 1
ColumnName(c) ==
    IF c <= 26 THEN <<64 + c>> ELSE <<64 + ((c - 1) \div 26), 65 + ((c - 1) % 26)>>

ColumnOf(a) ==
    CHOOSE c \in 1..702 : \E k \in 1..Len(a) :
        /\ ColumnName(c) = UpperStr(SubSeq(a, 1, k))
        /\ a[k + 1] \in 48..57

RowOf(a) == CHOOSE r \in 0..99 : \E k \in 1..Len(a) : Digits(r) = SubSeq(a, k + 1, Len(a))

CellOf(rows, a) ==
    IF RowOf(a) \in 1..Len(rows) /\ ColumnOf(a) \in 1..Len(rows[RowOf(a)])
       /\ rows[RowOf(a)][ColumnOf(a)] # EMPTY_CELL
    THEN rows[RowOf(a)][ColumnOf(a)]
    ELSE StrVal(S_EMPTY)

Extracted ==
    /\ extractor # None
    /\ extractor.called
    /\ extractor.self.file.readable
    /\ \A i \in 1..Len(extractor.cell_list) : IsCoordinate(extractor.cell_list[i])

C24_OneValuePerCell ==
    Extracted =>
        /\ ~IsRaise(extractor.values)
        /\ Len(extractor.values.return) = Len(extractor.cell_list)
        /\ \A i \in 1..Len(extractor.cell_list) :
               extractor.values.return[i]
                   = CellOf(extractor.self.file.rows, extractor.cell_list[i])


(***************************************************************************)
(* ExcelFileChecker.run (src/src/main.py) for a configuration that has     *)
(* FILE_TYPE_* sections: the search for the .xlsx files, the loop over     *)
(* them with its try/except, validate_all, the report and its saving.      *)
(* The validator that run() creates is held in pairs and calls, the list   *)
(* validate_all returns in ret, and the object's progress in checker.      *)
(***************************************************************************)
MaxFiles == 3

\* fnmatch.fnmatch(name, pat) for a pattern of literals, "*" and "?"
RECURSIVE fnmatch(_, _)
fnmatch(name, pat) ==
    IF pat = <<>> THEN name = <<>>
    ELSE IF Head(pat) = 42                                  \* "*"
    THEN fnmatch(name, Tail(pat)) \/ (name # <<>> /\ fnmatch(Tail(name), pat))
    ELSE /\ name # <<>>
         /\ Head(pat) = 63 \/ Head(pat) = Head(name)       \* "?"
         /\ fnmatch(Tail(name), Tail(pat))

\* sub in s
Contains(sub, s) ==
    \E i \in 0..(Len(s) - Len(sub)) : SubSeq(s, i + 1, i + Len(sub)) = sub

MARK_CHECKLIST ==  \* "レビューチェックリスト"
    <<12524, 12499, 12517, 12540, 12481, 12455, 12483, 12463, 12522, 12473,
    12488>>
MARK_CHECKLIST_ASCII ==  \* "checklist"
    <<99, 104, 101, 99, 107, 108, 105, 115, 116>>
MARK_RECORD ==  \* "レビュー記録表"
    <<12524, 12499, 12517, 12540, 35352, 37682, 34920>>
MARK_RECORD_SHORT ==  \* "記録表"
    <<35352, 37682, 34920>>

\* the filename's role when it has neither marker (None)
NO_FILE_TYPE == "None"

_determine_file_type(filename) ==
    IF \/ Contains(MARK_CHECKLIST, filename)
       \/ Contains(MARK_CHECKLIST_ASCII, LowerStr(filename))
    THEN "checklist"
    ELSE IF Contains(MARK_RECORD, filename) \/ Contains(MARK_RECORD_SHORT, filename)
    THEN "record"
    ELSE NO_FILE_TYPE

\* ConfigLoader._load_file_types: the dict of each FILE_TYPE_* section
_load_file_types(sections) ==
    [n \in 1..Len(sections) |->
        [file_pattern |-> sections[n].file_pattern,
         target_sheet |-> sections[n].target_sheet,
         target_cells |-> sections[n].target_cells,
         image_check_cells |-> sections[n].image_check_cells]]

\* ConfigLoader.get_file_type_config: the first dict whose pattern matches
get_file_type_config(file_types, filename) ==
    IF \E n \in 1..Len(file_types) : fnmatch(filename, file_types[n].file_pattern)
    THEN file_types[CHOOSE n \in 1..Len(file_types) :
                        /\ fnmatch(filename, file_types[n].file_pattern)
                        /\ \A m \in 1..(n - 1) :
                               ~fnmatch(filename, file_types[m].file_pattern)]
    ELSE None

\* the parameters (after self) of the two methods that run() calls
EXTRACT_CELLS_PARAMETERS == {"cell_list"}
CHECK_IMAGES_PARAMETERS == {"cell_list", "sheet_name"}

\* a call's keyword arguments all name parameters (else TypeError)
Binds(keywords, parameters) == keywords \subseteq parameters

\* ImageChecker.check_images
check_images(file, cell_list) ==
    IF cell_list = <<>> THEN <<>>
    ELSE IF LowerStr(file.extension) # SUFFIX_XLSX
    THEN [n \in 1..Len(cell_list) |-> IMAGE_UNSUPPORTED]
    ELSE IF ~file.readable THEN [n \in 1..Len(cell_list) |-> IMAGE_ABSENT]
    ELSE [n \in 1..Len(cell_list) |->
             IF cell_list[n] \in file.images THEN IMAGE_PRESENT ELSE IMAGE_ABSENT]

\* ExcelFileChecker._process_file_with_config
_process_file_with_config(file_path, file_type_config) ==
    LET self == CellExtractor(file_path)
    IN IF IsRaise(self) THEN self
       ELSE IF ~Binds({"sheet_name"}, EXTRACT_CELLS_PARAMETERS) THEN Raise("TypeError")
       ELSE LET cell_values == extract_cells(self, file_type_config.target_cells)
            IN IF IsRaise(cell_values) THEN cell_values
               ELSE IF ~Binds({"sheet_name"}, CHECK_IMAGES_PARAMETERS)
               THEN Raise("TypeError")
               ELSE IF "cell_labels" \notin DOMAIN file_type_config
               THEN Raise("KeyError")
               ELSE Return([filename |-> file_path.name,
                            cell_values |-> cell_values.return,
                            image_results |->
                                check_images(file_path,
                                             file_type_config.image_check_cells),
                            target_cells |-> file_type_config.target_cells,
                            image_check_cells |-> file_type_config.image_check_cells,
                            cell_labels |-> file_type_config.cell_labels])

LOG_PROCESSED == "processed"        \* "処理: "
LOG_FAILED == "processing failed"   \* "ファイル処理失敗: "

\* _log_info, _log_error: the line that is printed
_log_info(message, name, count) ==
    [level |-> "INFO", message |-> message, name |-> name, class |-> "", count |-> count]
_log_error(message, name, class) ==
    [level |-> "ERROR", message |-> message, name |-> name, class |-> class, count |-> 0]

TYPE_CHECKLIST == "checklist row"   \* "チェックリスト"
TYPE_RECORD == "record row"         \* "記録表"
DOT == <<46>>                       \* "."

\* get_value of _format_file_row
get_value(file_data, label) ==
    LET cell_labels == Get(file_data, "cell_labels", <<>>)
        cell_values == Get(file_data, "cell_values", <<>>)
    IN IF InList(label, cell_labels) /\ IndexOf(label, cell_labels) <= Len(cell_values)
       THEN IF cell_values[IndexOf(label, cell_labels)] = None THEN S_EMPTY
            ELSE Str(cell_values[IndexOf(label, cell_labels)])
       ELSE S_EMPTY

\* ExcelFileChecker._format_file_row: the columns of one row
_format_file_row(file_data, file_type, validation, project_name) ==
    <<Get(file_data, "filename", S_EMPTY),
      file_type,
      IF "file_path" \in DOMAIN file_data THEN file_data.file_path.parent ELSE DOT,
      project_name,
      IF file_type = TYPE_CHECKLIST THEN get_value(file_data, LABEL_DATE)
      ELSE get_value(file_data, LABEL_APPROVAL_DATE),
      IF file_type = TYPE_CHECKLIST THEN get_value(file_data, LABEL_ASSIGNEE)
      ELSE get_value(file_data, LABEL_REVIEWER),
      IF file_type = TYPE_CHECKLIST THEN get_value(file_data, LABEL_APPROVER)
      ELSE S_EMPTY,
      IF file_type = TYPE_CHECKLIST THEN IMAGE_UNSUPPORTED
      ELSE IF validation.has_stamp = "True" THEN IMAGE_PRESENT
      ELSE IF validation.has_stamp = "False" THEN IMAGE_ABSENT
      ELSE IMAGE_UNSUPPORTED,
      IF validation.has_pair THEN "paired" ELSE "not paired",    \* "あり", "なし"
      validation.status>>

\* the rows of the pairs, a checklist's row before its record's
RECURSIVE FileRows(_)
FileRows(validation_results) ==
    IF validation_results = <<>> THEN <<>>
    ELSE LET result == Head(validation_results)
         IN (IF Truthy(result.checklist)
             THEN <<_format_file_row(result.checklist, TYPE_CHECKLIST,
                                     result.validation, result.project_name)>>
             ELSE <<>>)
            \o (IF Truthy(result.record)
                THEN <<_format_file_row(result.record, TYPE_RECORD,
                                        result.validation, result.project_name)>>
                ELSE <<>>)
            \o FileRows(Tail(validation_results))

\* ExcelFileChecker._format_validation_results: the report, as its message
\* ("処理対象のファイルが見つかりませんでした。" for no result) or its header, its
\* rows and its summary lines
_format_validation_results(validation_results) ==
    IF validation_results = <<>>
    THEN [message |-> "no file to process was found",
          header |-> <<>>, rows |-> <<>>, summary |-> <<>>]
    ELSE [message |-> "",
          header |-> <<"Filename", "Type", "Path", LABEL_PROJECT_NAME, LABEL_DATE,
                       LABEL_ASSIGNEE, LABEL_APPROVER, "stamp", "pair", "status">>,
          rows |-> FileRows(validation_results),
          summary |-> _generate_summary(validation_results)]

(***************************************************************************)
(* The configurations and the files of the target directory.               *)
(***************************************************************************)
PATTERN_CHECKLIST ==  \* "*レビューチェックリスト*.xlsx"
    <<42, 12524, 12499, 12517, 12540, 12481, 12455, 12483, 12463, 12522,
    12473, 12488, 42, 46, 120, 108, 115, 120>>
PATTERN_RECORD ==  \* "レビュー記録表*.xlsx"
    <<12524, 12499, 12517, 12540, 35352, 37682, 34920, 42, 46, 120, 108, 115,
    120>>
PATTERN_ANY ==  \* "*.xlsx"
    <<42, 46, 120, 108, 115, 120>>
ADDR_D1 ==  \* "D1"
    <<68, 49>>

\* the two sections of tests/test_main.py
SECTIONS_TEST ==
    <<[file_pattern |-> PATTERN_CHECKLIST, target_sheet |-> "Sheet",
       target_cells |-> <<ADDR_A1, ADDR_B1>>, image_check_cells |-> <<>>,
       cell_labels |-> <<>>],
      [file_pattern |-> PATTERN_RECORD, target_sheet |-> "Sheet",
       target_cells |-> <<ADDR_A1, ADDR_B1, ADDR_C1>>, image_check_cells |-> <<ADDR_D1>>,
       cell_labels |-> <<>>]>>

\* one section for every .xlsx file, with a cell_labels option written in it
SECTIONS_ANY ==
    <<[file_pattern |-> PATTERN_ANY, target_sheet |-> "Sheet",
       target_cells |-> <<ADDR_A1, ADDR_B1>>, image_check_cells |-> <<ADDR_D1>>,
       cell_labels |-> <<LABEL_PROJECT_NAME, LABEL_DATE>>]>>

NAME_CHECKLIST ==  \* "test_レビューチェックリスト_v1.xlsx"
    <<116, 101, 115, 116, 95, 12524, 12499, 12517, 12540, 12481, 12455, 12483,
    12463, 12522, 12473, 12488, 95, 118, 49, 46, 120, 108, 115, 120>>
NAME_RECORD ==  \* "レビュー記録表_2024.xlsx"
    <<12524, 12499, 12517, 12540, 35352, 37682, 34920, 95, 50, 48, 50, 52, 46,
    120, 108, 115, 120>>
NAME_OTHER ==  \* "other_file.xlsx"
    <<111, 116, 104, 101, 114, 95, 102, 105, 108, 101, 46, 120, 108, 115,
    120>>
NAME_BOTH ==  \* "Checklist_記録表.xlsx"
    <<67, 104, 101, 99, 107, 108, 105, 115, 116, 95, 35352, 37682, 34920, 46,
    120, 108, 115, 120>>
NAME_CSV ==  \* "レビュー記録表.csv"
    <<12524, 12499, 12517, 12540, 35352, 37682, 34920, 46, 99, 115, 118>>
DIR_SUB ==  \* "sub"
    <<115, 117, 98>>

\* a file of the directory: its name, its directory below target_dir, and
\* what CellExtractor and ImageChecker find in it
File(name, parent, extension, rows, images) ==
    [name |-> name, parent |-> parent, extension |-> extension, exists |-> TRUE,
     readable |-> TRUE, rows |-> rows, images |-> images]

DIRECTORY ==
    {File(NAME_CHECKLIST, DOT, SUFFIX_XLSX, ROWS_2X2, {ADDR_D1}),
     File(NAME_RECORD, DOT, SUFFIX_XLSX, ROWS_2X2, {ADDR_D1}),
     File(NAME_OTHER, DOT, SUFFIX_XLSX, ROWS_NONE, {}),
     File(NAME_BOTH, DIR_SUB, SUFFIX_XLSX, ROWS_1X2, {}),
     File(NAME_CSV, DOT, SUFFIX_CSV, ROWS_1X2, {})}

\* Path.rglob("*.xlsx"): the files whose name ends in ".xlsx" (run_search
\* lists them in any order)
rglob(directory, pattern) == {file \in directory : fnmatch(file.name, pattern)}

(***************************************************************************)
(* The steps of run().                                                     *)
(***************************************************************************)
\* result["file_path"] = file_path
WithFilePath(result, file_path) ==
    [key \in DOMAIN result \cup {"file_path"} |->
        IF key = "file_path" THEN file_path ELSE result[key]]

\* the loop body whose except clause leaves the loop
LoopBody_Break(state, file_path) ==
    LET self == state.checker
        file_type_config == get_file_type_config(self.file_types, file_path.name)
        next == [self EXCEPT !.index = @ + 1]
    IN IF file_type_config = None THEN [state EXCEPT !.checker = next]
       ELSE LET result == _process_file_with_config(file_path, file_type_config)
            IN IF IsRaise(result)
               THEN [state EXCEPT !.checker =
                        [self EXCEPT !.index = Len(self.all_files) + 1,
                                     !.log = Append(@, _log_error(LOG_FAILED,
                                                                  file_path.name,
                                                                  result.raise))]]
               ELSE LET file_data == WithFilePath(result.return, file_path)
                        file_type == _determine_file_type(file_path.name)
                    IN [checker |->
                            [next EXCEPT !.results = Append(@, file_data),
                                         !.matched_files = Append(@, file_path),
                                         !.log = Append(@, _log_info(LOG_PROCESSED,
                                                                     file_path.name, 0))],
                        pairs |-> IF file_type # NO_FILE_TYPE
                                  THEN AddFile(state.pairs, file_data, file_type)
                                  ELSE state.pairs,
                        calls |-> IF file_type # NO_FILE_TYPE
                                  THEN Append(state.calls, [file_data |-> file_data,
                                                            file_type |-> file_type])
                                  ELSE state.calls]

\* lines 64-83: the body of the loop for one file
LoopBody(state, file_path) ==
    LET self == state.checker
        file_type_config == get_file_type_config(self.file_types, file_path.name)
        next == [self EXCEPT !.index = @ + 1]
    IN IF file_type_config = None THEN [state EXCEPT !.checker = next]
       ELSE LET result == _process_file_with_config(file_path, file_type_config)
            IN IF IsRaise(result)
               THEN [state EXCEPT !.checker =
                        [next EXCEPT !.log = Append(@, _log_error(LOG_FAILED,
                                                                  file_path.name,
                                                                  result.raise))]]
               ELSE LET file_data == WithFilePath(result.return, file_path)
                        file_type == _determine_file_type(file_path.name)
                    IN [checker |->
                            [next EXCEPT !.results = Append(@, file_data),
                                         !.matched_files = Append(@, file_path),
                                         !.log = Append(@, _log_info(LOG_PROCESSED,
                                                                     file_path.name, 0))],
                        pairs |-> IF file_type # NO_FILE_TYPE
                                  THEN AddFile(state.pairs, file_data, file_type)
                                  ELSE state.pairs,
                        calls |-> IF file_type # NO_FILE_TYPE
                                  THEN Append(state.calls, [file_data |-> file_data,
                                                            file_type |-> file_type])
                                  ELSE state.calls]

\* ExcelFileChecker(config_path) with a configuration of FILE_TYPE_* sections
new_ExcelFileChecker ==
    \E sections \in {SECTIONS_TEST, SECTIONS_ANY}, directory \in SUBSET DIRECTORY :
        /\ checker = None
        /\ Cardinality(directory) <= MaxFiles
        /\ checker' = [file_types |-> _load_file_types(sections),
                       directory |-> directory,
                       pc |-> "constructed",
                       all_files |-> <<>>,
                       index |-> 0,
                       results |-> <<>>,
                       matched_files |-> <<>>,
                       log |-> <<>>,
                       output |-> None]
        /\ UNCHANGED <<pairs, calls, ret, validations, summary, extractor>>

\* lines 54-62: the log line "探索開始: ...", the search and the new validator
run_search ==
    /\ checker # None
    /\ checker.pc = "constructed"
    /\ checker.file_types # <<>>
    /\ \E all_files \in [1..Cardinality(rglob(checker.directory, PATTERN_ANY))
                           -> rglob(checker.directory, PATTERN_ANY)] :
           /\ \A m, n \in DOMAIN all_files : m # n => all_files[m] # all_files[n]
           /\ checker' = [checker EXCEPT
                  !.pc = "loop",
                  !.all_files = all_files,
                  !.index = 1,
                  !.log = Append(@, _log_info("search started", <<>>, 0))]
    /\ pairs' = <<>>
    /\ calls' = <<>>
    /\ UNCHANGED <<ret, validations, summary, extractor>>

\* lines 64-83: one pass of the loop
run_file ==
    /\ checker # None
    /\ checker.pc = "loop"
    /\ checker.index <= Len(checker.all_files)
    /\ LET state == LoopBody([checker |-> checker, pairs |-> pairs, calls |-> calls],
                             checker.all_files[checker.index])
       IN /\ checker' = state.checker
          /\ pairs' = state.pairs
          /\ calls' = state.calls
    /\ UNCHANGED <<ret, validations, summary, extractor>>

\* lines 85-94 and 127-130: validate_all, the report and its saving, with
\* the log lines "発見: N件のファイル", "結果を保存: ..." and "処理完了: Nファイル処理"
run_finish ==
    /\ checker # None
    /\ checker.pc = "loop"
    /\ checker.index > Len(checker.all_files)
    /\ ret' = ValidateAll(pairs)
    /\ validations' = validations + 1
    /\ checker' = [checker EXCEPT
           !.pc = "done",
           !.output = _format_validation_results(ValidateAll(pairs)),
           !.log = @ \o <<_log_info("found", <<>>, Len(checker.matched_files)),
                          _log_info("saved", <<>>, 0),
                          _log_info("done", <<>>, Len(checker.results))>>]
    /\ UNCHANGED <<pairs, calls, summary, extractor>>

NextRun == new_ExcelFileChecker \/ run_search \/ run_file \/ run_finish

SpecRun == Init /\ [][NextRun]_vars


(***************************************************************************)
(* Vocabulary of the properties of run().                                  *)
(***************************************************************************)
Started == checker # None /\ checker.pc \in {"loop", "done"}
Finished == checker # None /\ checker.pc = "done"

\* the files the loop has been through
Visited == {checker.all_files[n] : n \in 1..(checker.index - 1)}
\* the files the search discovered
Discovered == {checker.all_files[n] : n \in 1..Len(checker.all_files)}

MatchesPattern(file) ==
    \E n \in 1..Len(checker.file_types) :
        fnmatch(file.name, checker.file_types[n].file_pattern)

\* processing the file raises
ProcessingRaises(file) ==
    /\ MatchesPattern(file)
    /\ IsRaise(_process_file_with_config(
                   file, get_file_type_config(checker.file_types, file.name)))

Logged(level, message, file) ==
    \E k \in 1..Len(checker.log) :
        /\ checker.log[k].level = level
        /\ checker.log[k].message = message
        /\ checker.log[k].name = file.name

\* the validator was handed a record of the file
ReachedValidator(file) ==
    \E k \in 1..Len(calls) : calls[k].file_data.filename = file.name
\* the file is counted in "processed N files"
CountedAsProcessed(file) ==
    \E k \in 1..Len(checker.results) : checker.results[k].filename = file.name
\* the report has a row of the file
InReport(file) ==
    \E k \in 1..Len(checker.output.rows) : checker.output.rows[k][1] = file.name

C23_ReportHasMatchedFiles ==
    Finished =>
        \A file \in Discovered : InReport(file) <=> MatchesPattern(file)

(***************************************************************************)
(* C29: run() calls add_file only with the role the filename classifies    *)
(* as, checklist or record, a name with both markers being a checklist;    *)
(* and a file that matches a pattern but classifies as neither is counted  *)
(* as processed while it never reaches the validator nor the report.       *)
(***************************************************************************)
C29_OnlyClassifiedReachValidator ==
    Started =>
        /\ \A k \in 1..Len(calls) :
               /\ calls[k].file_type \in {"checklist", "record"}
               /\ calls[k].file_type = _determine_file_type(calls[k].file_data.filename)
        /\ \A file \in Discovered :
               (/\ \/ Contains(MARK_CHECKLIST, file.name)
                   \/ Contains(MARK_CHECKLIST_ASCII, LowerStr(file.name))
                /\ \/ Contains(MARK_RECORD, file.name)
                   \/ Contains(MARK_RECORD_SHORT, file.name))
               => _determine_file_type(file.name) = "checklist"
        /\ \A file \in Visited :
               (MatchesPattern(file) /\ _determine_file_type(file.name) = NO_FILE_TYPE)
               => /\ CountedAsProcessed(file)
                  /\ ~ReachedValidator(file)
                  /\ Finished => ~InReport(file)

=============================================================================
